---- MODULE Spec2Model ----
(***************************************************************************)
(* Trade-in IMEI verification pipeline of the AT&T shopping MCP server     *)
(* (src/server.ts): checksum validator, trade-in catalog cache, device     *)
(* resolvers, Hyla gateway client and the two gate handlers                *)
(* (get_tradein_value, validate_imei), together with the browse tools.     *)
(*                                                                         *)
(* Strings that the code inspects character by character (IMEIs, brand,    *)
(* model and capacity names) are sequences of one-character strings.       *)
(***************************************************************************)
EXTENDS Integers, Sequences, FiniteSets, TLC

VARIABLES tradeInCache, tradeInCacheTime, now, request, response, io, probe,
          calls, shop

vars ==
  <<tradeInCache, tradeInCacheTime, now, request, response, io, probe, calls,
    shop>>

(***************************************************************************)
(* Bounds of the model.                                                    *)
(***************************************************************************)
MaxTicks == 3

\* tool calls one client makes, one after the other
MaxCalls == 3

\* tool calls each of two concurrent clients makes
MaxRaceCalls == 1

(***************************************************************************)
(* JavaScript string primitives.                                           *)
(***************************************************************************)
toLowerCaseChar(c) ==
  CASE c = "A" -> "a" [] c = "B" -> "b" [] c = "C" -> "c" [] c = "D" -> "d"
    [] c = "E" -> "e" [] c = "F" -> "f" [] c = "G" -> "g" [] c = "H" -> "h"
    [] c = "I" -> "i" [] c = "J" -> "j" [] c = "K" -> "k" [] c = "L" -> "l"
    [] c = "M" -> "m" [] c = "N" -> "n" [] c = "O" -> "o" [] c = "P" -> "p"
    [] c = "Q" -> "q" [] c = "R" -> "r" [] c = "S" -> "s" [] c = "T" -> "t"
    [] c = "U" -> "u" [] c = "V" -> "v" [] c = "W" -> "w" [] c = "X" -> "x"
    [] c = "Y" -> "y" [] c = "Z" -> "z" [] OTHER -> c

toLowerCase(s) == [i \in 1..Len(s) |-> toLowerCaseChar(s[i])]

\* String.prototype.includes: t occurs in s as a contiguous substring
includes(s, t) ==
  \E k \in 0..(Len(s) - Len(t)) : \A i \in 1..Len(t) : s[k + i] = t[i]

\* imei.replace(/[\s\-().]/g, "")
SeparatorChars == {" ", "\t", "-", "(", ")", "."}

stripSeparators(s) == SelectSeq(s, LAMBDA c : c \notin SeparatorChars)

DigitChars == <<"0", "1", "2", "3", "4", "5", "6", "7", "8", "9">>

isDigit(c) == \E i \in 1..10 : DigitChars[i] = c

\* parseInt(c, 10) of a single digit character
parseInt(c) == (CHOOSE i \in 1..10 : DigitChars[i] = c) - 1

(***************************************************************************)
(* Checksum validator.                                                     *)
(***************************************************************************)
RECURSIVE luhnSum(_, _)
\* the loop of luhnCheck from 0-based index i to the end of the string
luhnSum(imei, i) ==
  IF i >= Len(imei) THEN 0
  ELSE LET digit == parseInt(imei[i + 1])
           doubled == IF 2 * digit > 9 THEN 2 * digit - 9 ELSE 2 * digit
       IN (IF i % 2 = 1 THEN doubled ELSE digit) + luhnSum(imei, i + 1)

\* luhnCheck with the loop started at index 1
luhnCheck_SkipFirst(imei) == luhnSum(imei, 1) % 10 = 0

luhnCheck(imei) == luhnSum(imei, 0) % 10 = 0

\* validateImeiFormat working on the input as given
validateImeiFormat_NoStrip(imei) ==
  LET cleanImei == imei IN
  IF Len(cleanImei) # 15
    THEN [valid |-> FALSE, cleanImei |-> cleanImei, luhnValid |-> FALSE,
          message |-> "length", count |-> Len(cleanImei)]
  ELSE IF ~(\A i \in 1..15 : isDigit(cleanImei[i]))
    THEN [valid |-> FALSE, cleanImei |-> cleanImei, luhnValid |-> FALSE,
          message |-> "nondigit", count |-> 15]
  ELSE IF ~luhnCheck(cleanImei)
    THEN [valid |-> FALSE, cleanImei |-> cleanImei, luhnValid |-> FALSE,
          message |-> "checksum", count |-> 15]
  ELSE [valid |-> TRUE, cleanImei |-> cleanImei, luhnValid |-> TRUE,
        message |-> "ok", count |-> 15]

validateImeiFormat(imei) ==
  LET cleanImei == stripSeparators(imei) IN
  IF Len(cleanImei) # 15
    THEN [valid |-> FALSE, cleanImei |-> cleanImei, luhnValid |-> FALSE,
          message |-> "length", count |-> Len(cleanImei)]
  ELSE IF ~(\A i \in 1..15 : isDigit(cleanImei[i]))
    THEN [valid |-> FALSE, cleanImei |-> cleanImei, luhnValid |-> FALSE,
          message |-> "nondigit", count |-> 15]
  ELSE IF ~luhnCheck(cleanImei)
    THEN [valid |-> FALSE, cleanImei |-> cleanImei, luhnValid |-> FALSE,
          message |-> "checksum", count |-> 15]
  ELSE [valid |-> TRUE, cleanImei |-> cleanImei, luhnValid |-> TRUE,
        message |-> "ok", count |-> 15]

(***************************************************************************)
(* Trade-in catalog documents the upstream endpoint can serve.  A document *)
(* is the "phone" category of TradeInApiResponse: makes -> models ->       *)
(* productFamily (capacity, modelPrice, modelCode).                        *)
(***************************************************************************)
Device(capacity, modelPrice, modelCode) ==
  [capacity |-> capacity, modelPrice |-> modelPrice, modelCode |-> modelCode]

AppleModels ==
  << [name |-> <<"i", "1", "5">>,
      productFamily |-> << Device(<<"1", "2", "8", "G", "B">>, 500, "MC3") >>],
     [name |-> <<"i", "1", "5", " ", "P", "r", "o">>,
      productFamily |-> << Device(<<"2", "5", "6", "G", "B">>, 800, "MC1"),
                           Device(<<"5", "1", "2", "G", "B">>, 901, "MC2") >>],
     [name |-> <<"S", "E">>, productFamily |-> << >>],
     [name |-> <<"S", "E", " ", "2">>,
      productFamily |-> << Device(<<"6", "4", "G", "B">>, 101, "MC4") >>] >>

GoogleModels ==
  << [name |-> <<"P", "i", "x", "e", "l">>,
      productFamily |-> << Device(<<"1", "2", "8", "G", "B">>, 300, "MC5"),
                           Device(<<"5", "1", "2", "G", "B">>, 450, "MC6") >>] >>

BaseCatalog ==
  [hasPhone |-> TRUE,
   makes |-> << [name |-> <<"A", "p", "p", "l", "e">>, models |-> AppleModels],
                [name |-> <<"G", "o", "o", "g", "l", "e">>, models |-> GoogleModels] >>]

\* the same document after the upstream has lowered every price
Reprice(doc, delta) ==
  [doc EXCEPT !.makes =
     [i \in 1..Len(doc.makes) |->
        [doc.makes[i] EXCEPT !.models =
           [j \in 1..Len(doc.makes[i].models) |->
              [doc.makes[i].models[j] EXCEPT !.productFamily =
                 [k \in 1..Len(doc.makes[i].models[j].productFamily) |->
                    [doc.makes[i].models[j].productFamily[k]
                       EXCEPT !.modelPrice = @ - delta]]]]]]]

\* a document without the "phone" category
NoPhoneCatalog == [hasPhone |-> FALSE, makes |-> << >>]

Snapshots == << BaseCatalog, Reprice(BaseCatalog, 50), NoPhoneCatalog >>

SnapshotIds == 1..Len(Snapshots)

\* tradeInCache holds a snapshot id; null is 0
NoSnapshot == 0

(***************************************************************************)
(* Trade-in catalog cache.                                                 *)
(***************************************************************************)
TRADEIN_CACHE_TTL == 15 * 60 * 1000

\* granularity of the model's clock, in milliseconds
TickMs == 5 * 60 * 1000

\* outcome of fetch(ATT_TRADEIN_API): a parsed document, or a failure
\* (network error, non-success status, body that is not JSON)
NetOutcomes ==
  [ok : {TRUE}, snap : SnapshotIds] \cup [ok : {FALSE}, snap : {NoSnapshot}]

NoNet == [ok |-> FALSE, snap |-> NoSnapshot]

\* cacheIsValid with the boundary age counted as fresh
cacheIsValid_Inclusive(cache, cacheTime, t) ==
  cache # NoSnapshot /\ (t - cacheTime) <= TRADEIN_CACHE_TTL

cacheIsValid(cache, cacheTime, t) ==
  cache # NoSnapshot /\ (t - cacheTime) < TRADEIN_CACHE_TTL

\* the network outcomes a call of fetchTradeInData can consume
NetChoices(cache, cacheTime, t) ==
  IF cacheIsValid(cache, cacheTime, t) THEN {NoNet} ELSE NetOutcomes

\* fetchTradeInData whose catch clause also stamps the cache
fetchTradeInData_StampOnFailure(cache, cacheTime, t, net) ==
  IF cacheIsValid(cache, cacheTime, t)
    THEN [data |-> cache, cache |-> cache, cacheTime |-> cacheTime,
          fetched |-> 0, failed |-> 0]
  ELSE IF net.ok
    THEN [data |-> net.snap, cache |-> net.snap, cacheTime |-> t,
          fetched |-> 1, failed |-> 0]
  ELSE [data |-> cache, cache |-> cache, cacheTime |-> t,
        fetched |-> 1, failed |-> 1]

\* data is the return value; cache and cacheTime are the module variables
\* after the call; fetched and failed count the network fetch the call made
fetchTradeInData(cache, cacheTime, t, net) ==
  IF cacheIsValid(cache, cacheTime, t)
    THEN [data |-> cache, cache |-> cache, cacheTime |-> cacheTime,
          fetched |-> 0, failed |-> 0]
  ELSE IF net.ok
    THEN [data |-> net.snap, cache |-> net.snap, cacheTime |-> t,
          fetched |-> 1, failed |-> 0]
  ELSE [data |-> cache, cache |-> cache, cacheTime |-> cacheTime,
        fetched |-> 1, failed |-> 1]

(***************************************************************************)
(* Device resolvers.                                                       *)
(***************************************************************************)
\* Array.prototype.find as an index: the first of the indexes whose element
\* passes the test, else 0
findIndex(hits) ==
  IF hits = {} THEN 0 ELSE CHOOSE i \in hits : \A j \in hits : i <= j

\* make.models.slice(0, 10)
ModelListLimit == 10

\* alternatives: the names the failure message lists
NoValue ==
  [kind |-> "fail", reason |-> "", model |-> << >>, capacity |-> << >>,
   modelCode |-> "", base_value |-> 0, condition_value |-> 0,
   available_capacities |-> << >>, alternatives |-> << >>]

\* Math.round(modelPrice * conditionMultiplier), multiplier 1 or 0.5
conditionValue(modelPrice, good_condition) ==
  IF good_condition # "false"
    THEN modelPrice
    ELSE (modelPrice + 1) \div 2

\* selectDevice comparing the capacity as typed
selectDevice_CaseSensitive(family, capacity) ==
  LET match == findIndex({i \in DOMAIN family :
                            family[i].capacity = capacity})
  IN IF capacity # << >> /\ match # 0 THEN match ELSE 1

\* the index of selectedDevice in productFamily: the variant whose capacity
\* equals the one asked for, case ignored, else the first
selectDevice(family, capacity) ==
  LET match == findIndex({i \in DOMAIN family :
                            toLowerCase(family[i].capacity)
                              = toLowerCase(capacity)})
  IN IF capacity # << >> /\ match # 0 THEN match ELSE 1

getTradeInValue(data, brand, model, capacity, good_condition) ==
  IF data = NoSnapshot THEN [NoValue EXCEPT !.reason = "nodata"]
  ELSE IF ~Snapshots[data].hasPhone
    THEN [NoValue EXCEPT !.reason = "nophone"]
  ELSE
    LET makes == Snapshots[data].makes
        mk == findIndex({i \in DOMAIN makes :
                toLowerCase(makes[i].name) = toLowerCase(brand)})
    IN IF mk = 0
         THEN [NoValue EXCEPT
                 !.reason = "brand",
                 !.alternatives = [i \in DOMAIN makes |-> makes[i].name]]
       ELSE
         LET models == makes[mk].models
             md == findIndex({i \in DOMAIN models :
                     LET m == models[i] IN
                       \/ includes(toLowerCase(m.name), toLowerCase(model))
                       \/ includes(toLowerCase(model), toLowerCase(m.name))})
         IN IF md = 0
              THEN [NoValue EXCEPT
                      !.reason = "model",
                      !.alternatives =
                        [i \in 1..(IF Len(models) < ModelListLimit
                                     THEN Len(models) ELSE ModelListLimit)
                           |-> models[i].name]]
            ELSE
              LET family == models[md].productFamily
                  sel == selectDevice(family, capacity)
              IN \* productFamily[0] is undefined: reading modelPrice throws
                 IF Len(family) = 0
                   THEN [NoValue EXCEPT !.kind = "throw"]
                   ELSE [kind |-> "ok", reason |-> "",
                         model |-> models[md].name,
                         capacity |-> family[sel].capacity,
                         modelCode |-> family[sel].modelCode,
                         base_value |-> family[sel].modelPrice,
                         condition_value |->
                           conditionValue(family[sel].modelPrice,
                                          good_condition),
                         available_capacities |->
                           [k \in 1..Len(family) |-> family[k].modelPrice],
                         alternatives |-> << >>]

NoMatch ==
  [kind |-> "fail", brand |-> << >>, model |-> << >>, capacity |-> << >>,
   modelCode |-> "", tradeInValue |-> 0, available_capacities |-> << >>]

\* s.replace(/\s/g, "")
stripSpaces(s) == SelectSeq(s, LAMBDA c : c # " ")

matchImeiToTradeIn(data, brandName, modelName, capacity) ==
  IF data = NoSnapshot \/ ~Snapshots[data].hasPhone THEN NoMatch
  ELSE IF brandName = << >> /\ modelName = << >> THEN NoMatch
  ELSE
    LET makes == Snapshots[data].makes
        mk == findIndex({i \in DOMAIN makes :
                LET m == makes[i] IN
                  \/ includes(toLowerCase(m.name), toLowerCase(brandName))
                  \/ includes(toLowerCase(brandName), toLowerCase(m.name))})
    IN IF mk = 0 THEN NoMatch
       ELSE
         LET models == makes[mk].models
             md == findIndex({i \in DOMAIN models :
                     LET m == models[i] IN
                       \/ includes(toLowerCase(m.name),
                                   toLowerCase(modelName))
                       \/ includes(toLowerCase(modelName),
                                   toLowerCase(m.name))})
         IN IF md = 0 THEN NoMatch
            ELSE
              LET family == models[md].productFamily
                  match == findIndex({i \in DOMAIN family :
                               stripSpaces(toLowerCase(family[i].capacity))
                                 = stripSpaces(toLowerCase(capacity))})
                  sel == IF capacity # << >> /\ match # 0 THEN match ELSE 1
              IN IF Len(family) = 0
                   THEN [NoMatch EXCEPT !.kind = "throw"]
                   ELSE [kind |-> "ok", brand |-> makes[mk].name,
                         model |-> models[md].name,
                         capacity |-> family[sel].capacity,
                         modelCode |-> family[sel].modelCode,
                         tradeInValue |-> family[sel].modelPrice,
                         available_capacities |->
                           [k \in 1..Len(family) |-> family[k].modelPrice]]

NoLookup == [modelCode |-> "", catalogBrand |-> << >>, catalogModel |-> << >>]

RECURSIVE lookupFrom_AnyBrand(_, _, _, _, _)
\* lookupFrom without the brand filter
lookupFrom_AnyBrand(makes, i, brandLower, modelLower, found) ==
  IF i > Len(makes) THEN found
  ELSE
    LET models == makes[i].models
        md == findIndex({j \in DOMAIN models :
                /\ includes(toLowerCase(models[j].name), modelLower)
                /\ Len(models[j].productFamily) > 0})
        hit == IF md = 0 THEN found
               ELSE [modelCode |-> models[md].productFamily[1].modelCode,
                     catalogBrand |-> makes[i].name,
                     catalogModel |-> models[md].name]
    IN IF hit.modelCode # "" THEN hit
       ELSE lookupFrom_AnyBrand(makes, i + 1, brandLower, modelLower, hit)

RECURSIVE lookupFrom(_, _, _, _, _)
\* the nested loops over makes and models that both handlers run to find the
\* model code: in each make that passes the brand filter, the first model
\* that passes the model filter and has a variant sets the result and ends
\* the inner loop; the outer loop ends once the model code is non-empty
lookupFrom(makes, i, brandLower, modelLower, found) ==
  IF i > Len(makes) THEN found
  ELSE IF ~includes(toLowerCase(makes[i].name), brandLower)
    THEN lookupFrom(makes, i + 1, brandLower, modelLower, found)
  ELSE
    LET models == makes[i].models
        md == findIndex({j \in DOMAIN models :
                /\ includes(toLowerCase(models[j].name), modelLower)
                /\ Len(models[j].productFamily) > 0})
        hit == IF md = 0 THEN found
               ELSE [modelCode |-> models[md].productFamily[1].modelCode,
                     catalogBrand |-> makes[i].name,
                     catalogModel |-> models[md].name]
    IN IF hit.modelCode # "" THEN hit
       ELSE lookupFrom(makes, i + 1, brandLower, modelLower, hit)

lookupModelCode(data, brand, model) ==
  IF data = NoSnapshot \/ ~Snapshots[data].hasPhone THEN NoLookup
  ELSE lookupFrom(Snapshots[data].makes, 1, toLowerCase(brand),
                  toLowerCase(model), NoLookup)

getTradeInBrands(data) ==
  IF data = NoSnapshot \/ ~Snapshots[data].hasPhone THEN << >>
  ELSE [i \in 1..Len(Snapshots[data].makes) |-> Snapshots[data].makes[i].name]

getTradeInModels(data, brand) ==
  IF data = NoSnapshot \/ ~Snapshots[data].hasPhone THEN << >>
  ELSE LET makes == Snapshots[data].makes
           mk == findIndex({i \in DOMAIN makes :
                   toLowerCase(makes[i].name) = toLowerCase(brand)})
       IN IF mk = 0 THEN << >>
          ELSE [j \in 1..Len(makes[mk].models) |-> makes[mk].models[j].name]

\* the prices searchTradeInDevices returns for a query
searchTradeInDevices(data, query) ==
  IF data = NoSnapshot \/ ~Snapshots[data].hasPhone THEN {}
  ELSE LET makes == Snapshots[data].makes
           q == toLowerCase(query)
       IN { [brand |-> makes[i].name, model |-> makes[i].models[j].name,
             capacities |->
               [k \in 1..Len(makes[i].models[j].productFamily) |->
                  makes[i].models[j].productFamily[k].modelPrice]] :
            <<i, j>> \in
              { p \in (1..Len(makes)) \X (1..4) :
                  /\ p[2] <= Len(makes[p[1]].models)
                  /\ \/ includes(toLowerCase(makes[p[1]].models[p[2]].name), q)
                     \/ includes(toLowerCase(makes[p[1]].name), q) } }

(***************************************************************************)
(* Hyla gateway client.                                                    *)
(***************************************************************************)
\* hylaCode is null, NaN or a number
NullCode == [t |-> "null", n |-> 0]
NaNCode == [t |-> "nan", n |-> 0]
Num(k) == [t |-> "num", n |-> k]

\* the code field of the reply body: absent, a number, or text that
\* Number() does not parse
AbsentRaw == [t |-> "absent", n |-> 0]
TextRaw == [t |-> "text", n |-> 0]
NumRaw(k) == [t |-> "num", n |-> k]

\* JavaScript truthiness of data?.code and of hylaCode
rawTruthy(raw) == raw.t = "text" \/ (raw.t = "num" /\ raw.n # 0)
truthy(code) == code.t = "num" /\ code.n # 0

KnownCodes == {4009, 4010, 4011, 4001, 4002, 400}

HYLA_ERROR_CODES(k) ==
  CASE k = 4009 -> "IMEI does not match the selected device brand"
    [] k = 4010 -> "IMEI is blacklisted or reported stolen"
    [] k = 4011 -> "Device is not eligible for trade-in"
    [] k = 4001 -> "Invalid IMEI format"
    [] k = 4002 -> "IMEI not found in database"
    [] k = 400 -> "Bad request (missing session token or invalid parameters)"
    [] OTHER -> ""

\* hylaCode ? HYLA_ERROR_CODES[hylaCode] : null, with "" for null/undefined
knownErrorOf(code) ==
  IF truthy(code) /\ code.n \in KnownCodes THEN HYLA_ERROR_CODES(code.n)
  ELSE ""

\* a || b on strings
orElse(a, b) == IF a # "" THEN a ELSE b

isOk(status) == status >= 200 /\ status <= 299

NoHyla ==
  [called |-> FALSE, success |-> FALSE, status |-> 0, hylaCode |-> NullCode,
   hylaMessage |-> "", message |-> ""]

\* callHylaGateway without the fall-back to the text of the known code
callHylaGateway_NoKnownText(reply) ==
  IF reply.kind = "throw"
    THEN [called |-> TRUE, success |-> FALSE, status |-> 0,
          hylaCode |-> NullCode, hylaMessage |-> "",
          message |-> "Hyla API unreachable"]
  ELSE
    LET raw == IF reply.json THEN reply.code ELSE AbsentRaw
        hylaCode == IF rawTruthy(raw)
                      THEN (IF raw.t = "num" THEN Num(raw.n) ELSE NaNCode)
                      ELSE NullCode
        hylaMessage == IF reply.json THEN reply.message ELSE ""
    IN IF isOk(reply.status) /\ (~truthy(hylaCode) \/ hylaCode.n < 4000)
         THEN [called |-> TRUE, success |-> TRUE, status |-> reply.status,
               hylaCode |-> hylaCode, hylaMessage |-> hylaMessage,
               message |-> "Hyla verification successful"]
         ELSE [called |-> TRUE, success |-> FALSE, status |-> reply.status,
               hylaCode |-> hylaCode, hylaMessage |-> hylaMessage,
               message |-> orElse(hylaMessage, "Hyla returned HTTP")]

callHylaGateway(reply) ==
  IF reply.kind = "throw"
    THEN [called |-> TRUE, success |-> FALSE, status |-> 0,
          hylaCode |-> NullCode, hylaMessage |-> "",
          message |-> "Hyla API unreachable"]
  ELSE
    LET raw == IF reply.json THEN reply.code ELSE AbsentRaw
        hylaCode == IF rawTruthy(raw)
                      THEN (IF raw.t = "num" THEN Num(raw.n) ELSE NaNCode)
                      ELSE NullCode
        hylaMessage == IF reply.json THEN reply.message ELSE ""
        knownError == knownErrorOf(hylaCode)
    IN IF isOk(reply.status) /\ (~truthy(hylaCode) \/ hylaCode.n < 4000)
         THEN [called |-> TRUE, success |-> TRUE, status |-> reply.status,
               hylaCode |-> hylaCode, hylaMessage |-> hylaMessage,
               message |-> "Hyla verification successful"]
         ELSE [called |-> TRUE, success |-> FALSE, status |-> reply.status,
               hylaCode |-> hylaCode,
               hylaMessage |-> orElse(hylaMessage, knownError),
               message |-> orElse(hylaMessage,
                             orElse(knownError, "Hyla returned HTTP"))]

(***************************************************************************)
(* Gating of the trade-in value on the gateway result.                     *)
(***************************************************************************)
\* gtvGate without the branch for code 4009
gtvGate_NoMismatch(hylaResult) ==
  IF truthy(hylaResult.hylaCode) /\ hylaResult.hylaCode.n >= 4010
    THEN "BlockedIneligible"
  ELSE IF ~hylaResult.success /\ ~truthy(hylaResult.hylaCode)
    THEN "BlockedUnverifiable"
  ELSE "Verified"

\* get_tradein_value: the chain of if-statements after the gateway call
gtvGate(hylaResult) ==
  IF hylaResult.hylaCode = Num(4009) THEN "BlockedMismatch"
  ELSE IF truthy(hylaResult.hylaCode) /\ hylaResult.hylaCode.n >= 4010
    THEN "BlockedIneligible"
  ELSE IF ~hylaResult.success /\ ~truthy(hylaResult.hylaCode)
    THEN "BlockedUnverifiable"
  ELSE "Verified"

\* validate_imei step 4: what the verification section reports
validateReport(hylaResult) ==
  IF ~hylaResult.called THEN "NotCalled"
  ELSE IF hylaResult.success THEN "Verified"
  ELSE IF hylaResult.hylaCode = Num(4009) THEN "Mismatch"
  ELSE IF truthy(hylaResult.hylaCode) /\ hylaResult.hylaCode.n >= 4000
    THEN "DeviceIssue"
  ELSE IF hylaResult.status = 400 /\ ~truthy(hylaResult.hylaCode)
    THEN "NoToken"
  ELSE "Other"

\* validateGate taking any completed gateway call for a verified one
validateGate_AnyReply(hylaResult, check_tradein, identifiedBrand, identifiedModel) ==
  LET shouldCheckTradeIn == check_tradein # "false"
      hylaVerified == hylaResult.called
      hylaMismatch == hylaResult.called /\ hylaResult.hylaCode = Num(4009)
      hylaDeviceIssue == /\ hylaResult.called
                         /\ hylaResult.hylaCode.t = "num"
                         /\ hylaResult.hylaCode.n >= 4010
  IN IF shouldCheckTradeIn
          /\ (identifiedBrand # << >> \/ identifiedModel # << >>)
       THEN IF hylaMismatch THEN "BlockedMismatch"
            ELSE IF hylaDeviceIssue THEN "BlockedIneligible"
            ELSE IF hylaVerified THEN "Verified"
            ELSE "BlockedUnverifiable"
     ELSE IF shouldCheckTradeIn THEN "NeedBrandModel"
     ELSE "NotRequested"

\* validate_imei step 5: the branch taken for the trade-in value
validateGate(hylaResult, check_tradein, identifiedBrand, identifiedModel) ==
  LET shouldCheckTradeIn == check_tradein # "false"
      hylaVerified == hylaResult.called /\ hylaResult.success
      hylaMismatch == hylaResult.called /\ hylaResult.hylaCode = Num(4009)
      hylaDeviceIssue == /\ hylaResult.called
                         /\ hylaResult.hylaCode # NullCode
                         /\ hylaResult.hylaCode.t = "num"
                         /\ hylaResult.hylaCode.n >= 4010
      hylaNoToken == /\ hylaResult.called
                     /\ hylaResult.status = 400
                     /\ ~truthy(hylaResult.hylaCode)
      hylaNotCalled == ~hylaResult.called
  IN IF shouldCheckTradeIn
          /\ (identifiedBrand # << >> \/ identifiedModel # << >>)
       THEN IF hylaMismatch THEN "BlockedMismatch"
            ELSE IF hylaDeviceIssue THEN "BlockedIneligible"
            ELSE IF hylaVerified THEN "Verified"
            ELSE IF hylaNoToken \/ hylaNotCalled THEN "BlockedUnverifiable"
            ELSE "NoVerdict"
     ELSE IF shouldCheckTradeIn THEN "NeedBrandModel"
     ELSE "NotRequested"


(***************************************************************************)
(* Inputs: tool arguments and replies of the collaborators.                *)
(***************************************************************************)
ImeiInputs ==
  { << >>,
    <<"4", "9", "0", "1", "5", "4", "2", "0", "3", "2", "3", "7", "5", "1", "8">>,
    <<"4", "9", " ", "0", "1", "5", "4", "2", "0", "-", "3", "2", "3", "7", "5", "1", ".", "8">>,
    <<"4", "9", "0", "1", "5", "4", "2", "0", "3", "2", "3", "7", "5", "1", "9">>,
    <<"1", "2", "3", "4", "5">>,
    <<"4", "9", "0", "1", "5", "4", "2", "0", "3", "2", "3", "7", "5", "1", "A">> }

\* an optional boolean argument
OptionalBool == {"true", "false", "omitted"}

CapacityQueries == { << >>, <<"5", "1", "2", "g", "b">> }

\* (brand, model) arguments of get_tradein_value
GtvQueries ==
  { << <<"A", "p", "p", "l", "e">>, <<"i", "1", "5">> >>,
    << <<"A", "p", "p", "l", "e">>, <<"i", "1", "5", " ", "P", "r", "o">> >>,
    << <<"A", "p", "p", "l", "e">>, <<"S", "E">> >>,
    << <<"a", "p", "p">>, <<"i", "1", "5">> >>,
    << <<"A", "p", "p", "l", "e">>, <<"P", "i", "x", "e", "l">> >>,
    << <<"G", "o", "o", "g", "l", "e">>, <<"P", "i", "x", "e", "l">> >>,
    << <<"Z", "e", "d">>, <<"i", "1", "5">> >>,
    << << >>, <<"i", "1", "5">> >>,
    << <<"A", "p", "p", "l", "e">>, << >> >> }

\* (brand, model, model_code, response_token) arguments of validate_imei
VimQueries ==
  { << <<"A", "p", "p", "l", "e">>, <<"i", "1", "5">>, "", "" >>,
    << <<"A", "p", "p", "l", "e">>, <<"i", "1", "5", " ", "P", "r", "o">>, "", "token" >>,
    << <<"A", "p", "p", "l", "e">>, <<"S", "E">>, "", "" >>,
    << << >>, <<"P", "i", "x", "e", "l">>, "", "" >>,
    << <<"a", "p", "p">>, << >>, "", "" >>,
    << << >>, << >>, "", "" >>,
    << <<"Z", "e", "d">>, <<"i", "1", "5">>, "", "" >>,
    << <<"A", "p", "p", "l", "e">>, <<"P", "i", "x", "e", "l">>, "", "" >>,
    << << >>, << >>, "MC2", "" >>,
    << <<"A", "p", "p", "l", "e">>, <<"i", "1", "5", " ", "P", "r", "o">>, "MC2", "token" >>,
    << <<"Z", "e", "d">>, <<"i", "1", "5">>, "MC2", "" >> }

BrandQueries == {q[1] : q \in GtvQueries} \cup {q[1] : q \in VimQueries}

ModelQueries == {q[2] : q \in GtvQueries} \cup {q[2] : q \in VimQueries}

HttpStatuses == {200, 400, 500}

RawCodes ==
  {AbsentRaw, TextRaw} \cup
  {NumRaw(k) : k \in {200, 4001, 4005, 4009, 4010, 4999}}

UpstreamMessages == {"", "upstream message"}

ThrowReply ==
  [kind |-> "throw", status |-> 0, json |-> FALSE, code |-> AbsentRaw,
   message |-> ""]

GatewayReplies ==
  {ThrowReply}
  \cup [kind : {"http"}, status : HttpStatuses, json : {FALSE},
        code : {AbsentRaw}, message : {""}]
  \cup [kind : {"http"}, status : HttpStatuses, json : {TRUE},
        code : RawCodes, message : UpstreamMessages]

NoReply ==
  [kind |-> "none", status |-> 0, json |-> FALSE, code |-> AbsentRaw,
   message |-> ""]

(***************************************************************************)
(* The pure functions above, evaluated once per argument.                  *)
(***************************************************************************)
Tabulate(f) == f @@ [x \in {} |-> x]

CatalogNames ==
  UNION { {Snapshots[d].makes[i].name : i \in 1..Len(Snapshots[d].makes)}
          \cup UNION { {Snapshots[d].makes[i].models[j].name :
                          j \in 1..Len(Snapshots[d].makes[i].models)} :
                       i \in 1..Len(Snapshots[d].makes) } :
          d \in SnapshotIds }

DataValues == {NoSnapshot} \cup SnapshotIds

validationOf ==
  Tabulate([imei \in ImeiInputs |-> validateImeiFormat(imei)])

hylaResultOf ==
  Tabulate([reply \in GatewayReplies |-> callHylaGateway(reply)])

lookupOf ==
  Tabulate([data \in DataValues, brand \in BrandQueries,
            model \in ModelQueries |-> lookupModelCode(data, brand, model)])

valueOf ==
  Tabulate([data \in DataValues, q \in GtvQueries,
            capacity \in CapacityQueries, good_condition \in OptionalBool |->
              getTradeInValue(data, q[1], q[2], capacity, good_condition)])

matchOf ==
  Tabulate([data \in DataValues, brandName \in BrandQueries \cup CatalogNames,
            modelName \in ModelQueries \cup CatalogNames |->
              matchImeiToTradeIn(data, brandName, modelName, << >>)])

(***************************************************************************)
(* Shopping data layer: catalog.xlsx, carts.json, orders.json and the      *)
(* in-memory address qualifications.  Prices are whole dollars; the sums   *)
(* of a cart are in cents.                                                 *)
(***************************************************************************)
\* loadCatalog(): the sheets Products, Plans, Internet and Promotions.
\* Promotion codes are upper case, as the ones the tools advertise (ATT20).
ShopCatalog ==
  [products |->
     << [product_id |-> "P1", price |-> 30,
         storage_prices |-> {<<"128GB", 0>>, <<"256GB", 10>>}] >>,
   plans |->
     << [plan_id |-> "PL1", category |-> "Postpaid", price_monthly |-> 20],
        [plan_id |-> "PL2", category |-> "BYOD", price_monthly |-> 15],
        [plan_id |-> "PL3", category |-> "Family", price_monthly |-> 25] >>,
   internet |->
     << [plan_id |-> "F1", category |-> "Fiber", price_monthly |-> 55,
         speed_down |-> <<"1", " ", "G", "I", "G">>],
        [plan_id |-> "F2", category |-> "Fiber", price_monthly |-> 45,
         speed_down |-> <<"3", "0", "0", " ", "M">>],
        [plan_id |-> "A1", category |-> "Internet Air", price_monthly |-> 40,
         speed_down |-> <<"9", "0", " ", "M">>] >>,
   promotions |->
     << [code |-> <<"A", "T", "T", "2", "0">>, type |-> "percent",
         value |-> 20, min_order |-> 50, active |-> TRUE],
        [code |-> <<"F", "L", "A", "T", "5">>, type |-> "fixed",
         value |-> 5, min_order |-> 0, active |-> TRUE],
        [code |-> <<"O", "L", "D">>, type |-> "fixed",
         value |-> 10, min_order |-> 0, active |-> FALSE] >>]

\* { items: [], promo_code: null }
EmptyCart == [items |-> << >>, promo_code |-> << >>]

\* the cents of the cart summary; the division rounds as Math.round does
getCart(carts, userId) ==
  LET present == userId \in DOMAIN carts
      stored == IF present THEN carts ELSE (userId :> EmptyCart) @@ carts
      cart == stored[userId]
      items == cart.items
      RECURSIVE sum(_, _)
      sum(i, quantityOnly) ==
        IF i > Len(items) THEN 0
        ELSE (IF quantityOnly THEN items[i].quantity
              ELSE items[i].price * items[i].quantity)
             + sum(i + 1, quantityOnly)
      subtotal == sum(1, FALSE)
      promotions == ShopCatalog.promotions
      pr == IF cart.promo_code = << >> THEN 0
            ELSE findIndex({k \in DOMAIN promotions :
                              /\ promotions[k].code = cart.promo_code
                              /\ promotions[k].active})
      discount == IF pr = 0 \/ subtotal < promotions[pr].min_order THEN 0
                  ELSE IF promotions[pr].type = "percent"
                    THEN subtotal * promotions[pr].value
                  ELSE promotions[pr].value * 100
      tax == ((subtotal * 100 - discount) * 825 + 5000) \div 10000
      shipping == IF subtotal >= 35 THEN 0 ELSE 799
  IN [created |-> ~present, carts |-> stored,
      items |-> items, item_count |-> sum(1, TRUE),
      subtotal |-> subtotal * 100, discount |-> discount,
      promo_code |-> cart.promo_code, tax |-> tax, shipping |-> shipping,
      total |-> subtotal * 100 - discount + tax + shipping]

\* args.quantity and args.product_type are 0 and "" when left out; saved
\* says whether carts.json is written
addToCart(carts, args) ==
  LET userId == args.user_id
      quantity == IF args.quantity # 0 THEN args.quantity ELSE 1
      productType == IF args.product_type # "" THEN args.product_type
                     ELSE "product"
      storage == args.storage
      loaded == IF userId \in DOMAIN carts THEN carts
                ELSE (userId :> EmptyCart) @@ carts
      products == ShopCatalog.products
      plans == ShopCatalog.plans
      internet == ShopCatalog.internet
      pl == findIndex({k \in DOMAIN plans :
                         plans[k].plan_id = args.product_id})
      il == findIndex({k \in DOMAIN internet :
                         internet[k].plan_id = args.product_id})
      pd == findIndex({k \in DOMAIN products :
                         products[k].product_id = args.product_id})
      increments == IF pd = 0 \/ storage = "" THEN {}
                    ELSE {e[2] : e \in {x \in products[pd].storage_prices :
                                          x[1] = storage}}
      storagePriceIncrement ==
        IF increments = {} THEN 0 ELSE CHOOSE n \in increments : TRUE
      found == IF productType = "plan" THEN pl # 0
               ELSE IF productType = "internet" THEN il # 0
               ELSE pd # 0
      price == IF productType = "plan" THEN plans[pl].price_monthly
               ELSE IF productType = "internet"
                 THEN internet[il].price_monthly
               ELSE products[pd].price + storagePriceIncrement
      cart == loaded[userId]
      existing == findIndex({k \in DOMAIN cart.items :
                               /\ cart.items[k].id = args.product_id
                               /\ cart.items[k].storage = storage})
      items == IF existing # 0
                 THEN [cart.items EXCEPT
                         ![existing].quantity = @ + quantity]
               ELSE Append(cart.items,
                           [id |-> args.product_id, price |-> price,
                            quantity |-> quantity, type |-> productType,
                            storage |-> storage])
  IN IF ~found
       THEN [success |-> FALSE, saved |-> FALSE, carts |-> carts,
             message |-> "not found"]
     ELSE [success |-> TRUE, saved |-> TRUE,
           carts |-> [loaded EXCEPT ![userId].items = items],
           message |-> "Added"]

removeFromCart(carts, args) ==
  LET userId == args.user_id
      index == IF userId \in DOMAIN carts
                 THEN findIndex({k \in DOMAIN carts[userId].items :
                        carts[userId].items[k].id = args.product_id})
               ELSE 0
      items == carts[userId].items
  IN IF userId \notin DOMAIN carts
       THEN [success |-> FALSE, saved |-> FALSE, carts |-> carts,
             message |-> "Cart not found"]
     ELSE IF index = 0
       THEN [success |-> FALSE, saved |-> FALSE, carts |-> carts,
             message |-> "Item not in cart"]
     ELSE [success |-> TRUE, saved |-> TRUE,
           carts |-> [carts EXCEPT ![userId].items =
                        SubSeq(items, 1, index - 1)
                          \o SubSeq(items, index + 1, Len(items))],
           message |-> "Removed"]

\* pr is the active promotion args.promo_code names, compared without
\* regard to case (0: none)
applyPromo(carts, args) ==
  LET userId == args.user_id
      promotions == ShopCatalog.promotions
      pr == findIndex({k \in DOMAIN promotions :
                         /\ toLowerCase(promotions[k].code)
                              = toLowerCase(args.promo_code)
                         /\ promotions[k].active})
      loaded == IF userId \in DOMAIN carts THEN carts
                ELSE (userId :> EmptyCart) @@ carts
  IN IF pr = 0
       THEN [success |-> FALSE, saved |-> FALSE, carts |-> carts,
             message |-> "Invalid promo code"]
     ELSE [success |-> TRUE, saved |-> TRUE,
           carts |-> [loaded EXCEPT
                        ![userId].promo_code = ShopCatalog.promotions[pr].code],
           message |-> "Applied"]

\* clearCart emptying the items only
clearCart_KeepsPromo(carts, args) ==
  [success |-> TRUE, saved |-> TRUE,
   carts |-> IF args.user_id \in DOMAIN carts
               THEN [carts EXCEPT ![args.user_id].items = << >>]
             ELSE (args.user_id :> EmptyCart) @@ carts,
   message |-> "Cart cleared"]

clearCart(carts, args) ==
  [success |-> TRUE, saved |-> TRUE,
   carts |-> (args.user_id :> EmptyCart) @@ carts,
   message |-> "Cart cleared"]

\* checkout up to the point where the order is written: cart is the result
\* of getCart, args.is_new_customer is "true", "false" or "omitted",
\* args.shipping_address the set of fields that are not empty
checkoutValidation(cart, args) ==
  LET isNewCustomer == args.is_new_customer # "false"
      required == {"name", "street", "city", "state", "zip"}
      plans == ShopCatalog.plans
      items == cart.items
      planCategory(item) ==
        LET k == findIndex({j \in DOMAIN plans : plans[j].plan_id = item.id})
        IN IF item.type = "plan" /\ k # 0 THEN plans[k].category ELSE ""
      hasPhone == \E i \in DOMAIN items : items[i].type = "product"
      hasPostpaidPlan ==
        \E i \in DOMAIN items : planCategory(items[i]) = "Postpaid"
      hasBYODPlan == \E i \in DOMAIN items : planCategory(items[i]) = "BYOD"
  IN IF cart.item_count = 0 THEN "Cart is empty"
     ELSE IF isNewCustomer /\ hasPostpaidPlan /\ ~hasPhone
       THEN "PHONE_REQUIRED"
     ELSE IF isNewCustomer /\ hasPhone /\ ~hasPostpaidPlan /\ ~hasBYODPlan
       THEN "PLAN_REQUIRED"
     ELSE IF ~(required \subseteq args.shipping_address) THEN "Missing"
     ELSE "ok"

\* the qualificationCache after the call, and the plans it returns
checkAddressQualification(cache, args) ==
  LET fiberZips ==
        { <<"9", "0">>, <<"9", "1">>, <<"9", "2">>, <<"9", "3">>,
          <<"9", "4">>, <<"9", "5">>, <<"1", "0">>, <<"1", "1">>,
          <<"1", "2">>, <<"2", "0">>, <<"2", "1">>, <<"2", "2">> }
      zipPrefix == SubSeq(args.zip, 1, IF Len(args.zip) < 2 THEN Len(args.zip)
                                       ELSE 2)
      fiberAvailable == zipPrefix \in fiberZips
      internet == ShopCatalog.internet
  IN [cache |-> (args.user_id :> [zip |-> args.zip,
                                  fiber_available |-> fiberAvailable])
                  @@ cache,
      fiber_available |-> fiberAvailable,
      available_plans |->
        SelectSeq(internet,
                  LAMBDA p : p.category = IF fiberAvailable THEN "Fiber"
                                          ELSE "Internet Air")]

\* args.min_speed is -1 when left out; include_fiber is never passed
getInternetPlans(cache, args) ==
  LET internet == ShopCatalog.internet
      category == IF args.user_id \in DOMAIN cache
                       /\ cache[args.user_id].fiber_available
                    THEN "Fiber" ELSE "Internet Air"
      RECURSIVE digits(_, _)
      \* parseInt(String(p.speed_down).replace(/\D/g, '')) || 0
      digits(str, acc) ==
        IF str = << >> THEN acc
        ELSE digits(Tail(str), IF isDigit(Head(str))
                                 THEN 10 * acc + parseInt(Head(str))
                               ELSE acc)
  IN SelectSeq(internet,
               LAMBDA p : /\ p.category = category
                          /\ (args.min_speed # -1
                                => digits(p.speed_down, 0) >= args.min_speed))

(***************************************************************************)
(* State.                                                                  *)
(*   tradeInCache, tradeInCacheTime  the module-level cache                *)
(*   now       Date.now()                                                  *)
(*   request   the tool call being answered (tool "none": no call)         *)
(*   response  what the handler returned                                   *)
(*   io        what the handler did on the way: catalog reads, network     *)
(*             fetches, gateway calls, the gateway reply and its result    *)
(*   probe     a call of one of the pure functions on its own: the         *)
(*             function, its argument, and its result once it returned     *)
(*   calls     the asynchronous calls in progress, one per client: where   *)
(*             the call stands and the values it holds in local variables  *)
(*   shop      carts.json, orders.json, the qualificationCache and the     *)
(*             clock that dates the orders                                 *)
(***************************************************************************)
StartTime == TRADEIN_CACHE_TTL

EndTime == StartTime + MaxTicks * TickMs

\* the clock readings possible after an await that started at t
LaterTimes(t) == {t} \cup (IF t + TickMs <= EndTime THEN {t + TickMs} ELSE {})

NoRequest ==
  [tool |-> "none", imei |-> << >>, brand |-> << >>, model |-> << >>,
   capacity |-> << >>, good_condition |-> "omitted", model_code |-> "",
   check_tradein |-> "omitted", response_token |-> "", query |-> << >>]

NoResponse ==
  [verdict |-> "none", report |-> "none", hasAmount |-> FALSE, amount |-> 0,
   base_value |-> 0, listed |-> {}, message |-> "", outOfBand |-> FALSE,
   validation |-> "none", pricedCode |-> "", alternatives |-> << >>]

NoIo ==
  [reads |-> 0, fetches |-> 0, failures |-> 0, hylaCalls |-> << >>, reply |-> NoReply,
   hylaResult |-> NoHyla, modelCode |-> "", lookupSnap |-> NoSnapshot,
   priceSnap |-> NoSnapshot]

NoFetch(cache, cacheTime) ==
  [data |-> NoSnapshot, cache |-> cache, cacheTime |-> cacheTime,
   fetched |-> 0, failed |-> 0]

Range(f) == {f[i] : i \in DOMAIN f}

NoProbe == [fn |-> "none", arg |-> << >>, done |-> FALSE, result |-> FALSE]

\* the server right after start: nothing cached, no call in progress
ServerInit ==
  /\ tradeInCache = NoSnapshot
  /\ tradeInCacheTime = 0
  /\ now = StartTime
  /\ request = NoRequest
  /\ response = NoResponse
  /\ io = NoIo
  /\ shop = [carts |-> << >>, orders |-> << >>, qualificationCache |-> << >>,
             random |-> 0, clock |-> 0]

Init ==
  /\ ServerInit
  /\ probe = NoProbe
  /\ calls = << >>

\* time passes between tool calls
Tick ==
  /\ request.tool = "none"
  /\ now + TickMs <= EndTime
  /\ now' = now + TickMs
  /\ UNCHANGED <<tradeInCache, tradeInCacheTime, request, response, io,
                 probe, calls, shop>>

\* the handler's return value goes back to the caller; its locals are gone
Return ==
  /\ request.tool # "none"
  /\ request' = NoRequest
  /\ response' = NoResponse
  /\ io' = NoIo
  /\ UNCHANGED <<tradeInCache, tradeInCacheTime, now, probe, calls, shop>>

Done(cache, cacheTime, t, req, resp, ioRec) ==
  /\ tradeInCache' = cache
  /\ tradeInCacheTime' = cacheTime
  /\ now' = t
  /\ request' = req
  /\ response' = resp
  /\ io' = ioRec
  /\ UNCHANGED <<probe, calls, shop>>

(***************************************************************************)
(* Browse tools.                                                           *)
(***************************************************************************)
get_tradein_brands ==
  /\ request.tool = "none"
  /\ \E net \in NetChoices(tradeInCache, tradeInCacheTime, now) :
       LET f == fetchTradeInData(tradeInCache, tradeInCacheTime, now, net)
           brands == getTradeInBrands(f.data)
       IN Done(f.cache, f.cacheTime, now,
               [NoRequest EXCEPT !.tool = "get_tradein_brands"],
               [NoResponse EXCEPT !.verdict = "Brands"],
               [NoIo EXCEPT !.reads = 1, !.fetches = f.fetched,
                            !.failures = f.failed])

get_tradein_models ==
  /\ request.tool = "none"
  /\ \E brand \in BrandQueries \ {<< >>},
        net \in NetChoices(tradeInCache, tradeInCacheTime, now) :
       LET f == fetchTradeInData(tradeInCache, tradeInCacheTime, now, net)
           models == getTradeInModels(f.data, brand)
       IN Done(f.cache, f.cacheTime, now,
               [NoRequest EXCEPT !.tool = "get_tradein_models",
                                 !.brand = brand],
               [NoResponse EXCEPT
                  !.verdict = IF Len(models) = 0 THEN "NoModels"
                              ELSE "Models"],
               [NoIo EXCEPT !.reads = 1, !.fetches = f.fetched,
                            !.failures = f.failed])

search_tradein ==
  /\ request.tool = "none"
  /\ \E query \in ModelQueries \ {<< >>},
        net \in NetChoices(tradeInCache, tradeInCacheTime, now) :
       LET f == fetchTradeInData(tradeInCache, tradeInCacheTime, now, net)
           results == searchTradeInDevices(f.data, query)
           prices == UNION {Range(r.capacities) : r \in results}
       IN Done(f.cache, f.cacheTime, now,
               [NoRequest EXCEPT !.tool = "search_tradein",
                                 !.query = query],
               IF results = {}
                 THEN [NoResponse EXCEPT !.verdict = "NoResults"]
                 ELSE [NoResponse EXCEPT !.verdict = "SearchResults",
                                         !.hasAmount = prices # {},
                                         !.listed = prices],
               [NoIo EXCEPT !.reads = 1, !.fetches = f.fetched,
                            !.failures = f.failed,
                            !.priceSnap = f.data])

(***************************************************************************)
(* get_tradein_value handler.                                              *)
(***************************************************************************)
\* a handler whose catch clause is missing: the exception leaves the handler
handlerCatch_Rethrow(thrown, resp) ==
  IF thrown THEN [NoResponse EXCEPT !.verdict = "Escaped"] ELSE resp

\* try { ... } catch (error) { return { content: [...] } } around the body of
\* a handler: an exception thrown in the body becomes the error response
handlerCatch(thrown, resp) ==
  IF thrown THEN [NoResponse EXCEPT !.verdict = "HandlerError"] ELSE resp

\* the response for each way the handler ends
gtvResponse(stage, validation, hylaResult, result) ==
  CASE stage = "MissingArgs" -> [NoResponse EXCEPT !.verdict = "MissingArgs"]
    [] stage = "ImeiRequired" -> [NoResponse EXCEPT !.verdict = "ImeiRequired"]
    [] stage = "InvalidImei" ->
         [NoResponse EXCEPT !.verdict = "InvalidImei",
                            !.validation = validation.message]
    [] stage = "CatalogMiss" ->
         [NoResponse EXCEPT !.verdict = "CatalogMiss", !.validation = "ok",
                            !.outOfBand = TRUE]
    [] stage = "BlockedMismatch" ->
         [NoResponse EXCEPT !.verdict = "BlockedMismatch",
                            !.validation = "ok", !.report = "Mismatch",
                            !.message = hylaResult.hylaMessage]
    [] stage = "BlockedIneligible" ->
         [NoResponse EXCEPT !.verdict = "BlockedIneligible",
                            !.validation = "ok", !.report = "DeviceIssue",
                            !.message = hylaResult.hylaMessage]
    [] stage = "BlockedUnverifiable" ->
         [NoResponse EXCEPT !.verdict = "BlockedUnverifiable",
                            !.validation = "ok", !.report = "Unverifiable",
                            !.outOfBand = TRUE]
    [] stage = "Verified" /\ result.kind = "throw" ->
         handlerCatch(TRUE, NoResponse)
    [] stage = "Verified" /\ result.kind = "fail" ->
         [NoResponse EXCEPT !.verdict = "VerifiedNoValue",
                            !.validation = "ok", !.report = "Verified",
                            !.message = result.reason,
                            !.alternatives = result.alternatives]
    [] stage = "Verified" /\ result.kind = "ok" ->
         [NoResponse EXCEPT !.verdict = "Disclosed", !.validation = "ok",
                            !.report = "Verified", !.hasAmount = TRUE,
                            !.amount = result.condition_value,
                            !.base_value = result.base_value,
                            !.listed = Range(result.available_capacities),
                            !.pricedCode = result.modelCode]

\* gtvEarly without the validity check
gtvEarly_NoValidation(brand, model, imei, validation) ==
  IF brand = << >> \/ model = << >> THEN "MissingArgs"
  ELSE IF imei = << >> THEN "ImeiRequired"
  ELSE "none"

\* the checks before the catalog is read
gtvEarly(brand, model, imei, validation) ==
  IF brand = << >> \/ model = << >> THEN "MissingArgs"
  ELSE IF imei = << >> THEN "ImeiRequired"
  ELSE IF ~validation.valid THEN "InvalidImei"
  ELSE "none"

\* the handler from the gateway call on; f1 is its first catalog read
gtvVerify(req, validation, f1, modelCode) ==
  \E reply \in GatewayReplies :
    LET hylaResult == hylaResultOf[reply]
        stage == gtvGate(hylaResult)
        ioRec == [reads |-> 1, fetches |-> f1.fetched,
                  failures |-> f1.failed,
                  hylaCalls |-> << [modelCode |-> modelCode,
                                    imei |-> validation.cleanImei,
                                    responseToken |-> ""] >>,
                  reply |-> reply, hylaResult |-> hylaResult,
                  modelCode |-> modelCode, lookupSnap |-> f1.data,
                  priceSnap |-> NoSnapshot]
    IN IF stage # "Verified"
         THEN Done(f1.cache, f1.cacheTime, now, req,
                   gtvResponse(stage, validation, hylaResult, NoValue),
                   ioRec)
         ELSE \E t2 \in LaterTimes(now) :
              \E net2 \in NetChoices(f1.cache, f1.cacheTime, t2) :
                LET f2 == fetchTradeInData(f1.cache, f1.cacheTime, t2, net2)
                    result == valueOf[f2.data, <<req.brand, req.model>>,
                                      req.capacity, req.good_condition]
                IN Done(f2.cache, f2.cacheTime, t2, req,
                        gtvResponse(stage, validation, hylaResult, result),
                        [ioRec EXCEPT !.reads = 2,
                                      !.fetches = f1.fetched + f2.fetched,
                                      !.failures = f1.failed + f2.failed,
                                      !.priceSnap = f2.data])

get_tradein_value ==
  /\ request.tool = "none"
  /\ \E q \in GtvQueries, imei \in ImeiInputs,
        capacity \in CapacityQueries, good_condition \in OptionalBool :
       LET req == [NoRequest EXCEPT !.tool = "get_tradein_value",
                     !.brand = q[1], !.model = q[2], !.imei = imei,
                     !.capacity = capacity,
                     !.good_condition = good_condition]
           validation == validationOf[imei]
           early == gtvEarly(q[1], q[2], imei, validation)
       IN IF early # "none"
            THEN Done(tradeInCache, tradeInCacheTime, now, req,
                      gtvResponse(early, validation, NoHyla, NoValue), NoIo)
            ELSE \E net1 \in NetChoices(tradeInCache, tradeInCacheTime, now) :
                   LET f1 == fetchTradeInData(tradeInCache, tradeInCacheTime,
                                              now, net1)
                       modelCode == lookupOf[f1.data, q[1], q[2]].modelCode
                   IN IF modelCode = ""
                        THEN Done(f1.cache, f1.cacheTime, now, req,
                                  gtvResponse("CatalogMiss", validation,
                                              NoHyla, NoValue),
                                  [NoIo EXCEPT !.reads = 1,
                                               !.fetches = f1.fetched,
                                               !.failures = f1.failed,
                                               !.lookupSnap = f1.data])
                        ELSE gtvVerify(req, validation, f1, modelCode)

(***************************************************************************)
(* validate_imei handler.                                                  *)
(***************************************************************************)
vimResponse(report, gate, hylaResult, tradeIn, good_condition) ==
  LET base == [NoResponse EXCEPT
                 !.validation = "ok", !.report = report,
                 \* step 4 prints hylaMessage under a mismatch or device issue
                 !.message = IF report \in {"Mismatch", "DeviceIssue"}
                               THEN hylaResult.hylaMessage ELSE ""]
  IN CASE gate = "BlockedMismatch" ->
            [base EXCEPT !.verdict = "BlockedMismatch"]
       [] gate = "BlockedIneligible" ->
            [base EXCEPT !.verdict = "BlockedIneligible",
                         !.message = hylaResult.hylaMessage]
       [] gate = "BlockedUnverifiable" ->
            [base EXCEPT !.verdict = "BlockedUnverifiable",
                         !.outOfBand = TRUE]
       [] gate = "Verified" /\ tradeIn.kind = "throw" ->
            handlerCatch(TRUE, NoResponse)
       [] gate = "Verified" /\ tradeIn.kind = "fail" ->
            [base EXCEPT !.verdict = "VerifiedNoMatch"]
       [] gate = "Verified" /\ tradeIn.kind = "ok" ->
            [base EXCEPT !.verdict = "Disclosed", !.hasAmount = TRUE,
                         !.amount = conditionValue(tradeIn.tradeInValue,
                                                   good_condition),
                         !.base_value = tradeIn.tradeInValue,
                         !.listed = Range(tradeIn.available_capacities),
                         !.pricedCode = tradeIn.modelCode]
       [] OTHER -> [base EXCEPT !.verdict = gate]

\* steps 4 and 5 of the handler; f1 is the state of the cache after step 3
vimVerify(req, validation, f1, ioRec, hylaResult, identifiedBrand, identifiedModel) ==
  LET report == validateReport(hylaResult)
      gate == validateGate(hylaResult, req.check_tradein, identifiedBrand,
                           identifiedModel)
  IN IF gate # "Verified"
       THEN Done(f1.cache, f1.cacheTime, now, req,
                 vimResponse(report, gate, hylaResult, NoMatch,
                             req.good_condition),
                 ioRec)
       ELSE \E t2 \in LaterTimes(now) :
            \E net2 \in NetChoices(f1.cache, f1.cacheTime, t2) :
              LET f2 == fetchTradeInData(f1.cache, f1.cacheTime, t2, net2)
                  tradeIn == matchOf[f2.data, identifiedBrand,
                                     identifiedModel]
              IN Done(f2.cache, f2.cacheTime, t2, req,
                      vimResponse(report, gate, hylaResult, tradeIn,
                                  req.good_condition),
                      [ioRec EXCEPT !.reads = ioRec.reads + 1,
                                    !.fetches = ioRec.fetches + f2.fetched,
                                    !.failures = ioRec.failures + f2.failed,
                                    !.priceSnap = f2.data])

\* step 3 of the handler has produced the model code (or none)
vimGateway(req, validation, f1, reads, lookup) ==
  LET modelCode == IF req.model_code # "" THEN req.model_code
                   ELSE lookup.modelCode
      catalogBrand == IF lookup # NoLookup THEN lookup.catalogBrand
                      ELSE req.brand
      catalogModel == IF lookup # NoLookup THEN lookup.catalogModel
                      ELSE req.model
      identifiedBrand == IF catalogBrand # << >> THEN catalogBrand
                         ELSE req.brand
      identifiedModel == IF catalogModel # << >> THEN catalogModel
                         ELSE req.model
      ioRec == [NoIo EXCEPT !.reads = reads, !.fetches = f1.fetched,
                            !.failures = f1.failed,
                            !.modelCode = modelCode,
                            !.lookupSnap = f1.data]
  IN IF modelCode = ""
       THEN vimVerify(req, validation, f1, ioRec, NoHyla, identifiedBrand,
                      identifiedModel)
       ELSE \E reply \in GatewayReplies :
              vimVerify(req, validation, f1,
                        [ioRec EXCEPT
                           !.hylaCalls =
                             << [modelCode |-> modelCode,
                                 imei |-> validation.cleanImei,
                                 responseToken |-> req.response_token] >>,
                           !.reply = reply,
                           !.hylaResult = hylaResultOf[reply]],
                        hylaResultOf[reply], identifiedBrand,
                        identifiedModel)

validate_imei ==
  /\ request.tool = "none"
  /\ \E q \in VimQueries, imei \in ImeiInputs,
        check_tradein \in OptionalBool, good_condition \in OptionalBool :
       LET req == [NoRequest EXCEPT !.tool = "validate_imei",
                     !.imei = imei, !.brand = q[1], !.model = q[2],
                     !.model_code = q[3], !.response_token = q[4],
                     !.check_tradein = check_tradein,
                     !.good_condition = good_condition]
           validation == validationOf[imei]
       IN IF ~validation.valid
            THEN Done(tradeInCache, tradeInCacheTime, now, req,
                      [NoResponse EXCEPT !.verdict = "InvalidImei",
                                         !.validation = validation.message],
                      NoIo)
          ELSE IF q[3] = "" /\ (q[1] # << >> \/ q[2] # << >>)
            THEN \E net1 \in NetChoices(tradeInCache, tradeInCacheTime, now) :
                   LET f1 == fetchTradeInData(tradeInCache, tradeInCacheTime,
                                              now, net1)
                   IN vimGateway(req, validation, f1, 1,
                                 lookupOf[f1.data, q[1], q[2]])
          ELSE vimGateway(req, validation,
                          NoFetch(tradeInCache, tradeInCacheTime), 0,
                          NoLookup)

(***************************************************************************)
(* The server: tool calls arrive one at a time, in any order.              *)
(***************************************************************************)
Next ==
  \/ Tick
  \/ Return
  \/ get_tradein_brands
  \/ get_tradein_models
  \/ search_tradein
  \/ get_tradein_value
  \/ validate_imei

Spec == Init /\ [][Next]_vars

(***************************************************************************)
(* The checksum validator on its own: luhnCheck and validateImeiFormat     *)
(* applied to one input.                                                   *)
(***************************************************************************)
server ==
  <<tradeInCache, tradeInCacheTime, now, request, response, io, calls, shop>>

Fixture ==
  <<"4", "9", "0", "1", "5", "4", "2", "0", "3", "2", "3", "7", "5", "1", "8">>

\* strings of 15 digits: the fixture with its first two and last two digits
\* replaced by any digits
LuhnInputs ==
  { [Fixture EXCEPT ![1] = DigitChars[a], ![2] = DigitChars[b],
                    ![14] = DigitChars[c], ![15] = DigitChars[d]] :
      a \in 1..10, b \in 1..10, c \in 1..10, d \in 1..10 }

\* s with character c put in after position k
insertAt(s, k, c) == SubSeq(s, 1, k) \o <<c>> \o SubSeq(s, k + 1, Len(s))

\* strings of 15 digits the other inputs are made from
BaseImeis ==
  { [Fixture EXCEPT ![1] = DigitChars[a], ![15] = DigitChars[d]] :
      a \in {1, 5, 10}, d \in 1..10 }

\* "1234-ABCD-5678-90"
LetterFixture ==
  <<"1", "2", "3", "4", "-", "A", "B", "C", "D", "-", "5", "6", "7", "8",
    "-", "9", "0">>

ValidatorInputs ==
  ImeiInputs \cup BaseImeis \cup {LetterFixture}
  \cup { insertAt(s, k, c) : s \in BaseImeis, k \in {0, 7, 15},
                             c \in SeparatorChars }
  \cup { insertAt(insertAt(s, 2, " "), 9, "-") : s \in BaseImeis }
  \cup { [s EXCEPT ![k] = c] : s \in BaseImeis, k \in {1, 8, 15},
                               c \in {"A", "x", "+"} }
  \cup { SubSeq(s, 1, 14) : s \in BaseImeis }
  \cup { s \o <<"0">> : s \in BaseImeis }
  \cup { SubSeq(s, 1, 13) \o <<"A">> : s \in BaseImeis }
  \cup { insertAt(s, 7, "A") : s \in BaseImeis }
  \cup { insertAt(SubSeq(s, 1, 14), 7, "A") : s \in BaseImeis }

InitValidator ==
  /\ ServerInit
  /\ calls = << >>
  /\ probe \in
       { [NoProbe EXCEPT !.fn = "luhnCheck", !.arg = s] : s \in LuhnInputs }
       \cup { [NoProbe EXCEPT !.fn = "validateImeiFormat", !.arg = s] :
                s \in ValidatorInputs }

apply_luhnCheck ==
  /\ probe.fn = "luhnCheck"
  /\ ~probe.done
  /\ probe' = [probe EXCEPT !.done = TRUE, !.result = luhnCheck(probe.arg)]
  /\ UNCHANGED server

apply_validateImeiFormat ==
  /\ probe.fn = "validateImeiFormat"
  /\ ~probe.done
  /\ probe' = [probe EXCEPT !.done = TRUE,
                            !.result = validateImeiFormat(probe.arg)]
  /\ UNCHANGED server

NextValidator == apply_luhnCheck \/ apply_validateImeiFormat

SpecValidator == InitValidator /\ [][NextValidator]_vars

(***************************************************************************)
(* The device resolvers on their own: the model-code lookup of the two     *)
(* handlers, getTradeInValue and matchImeiToTradeIn applied to one catalog *)
(* snapshot and one query.                                                 *)
(***************************************************************************)
\* "Apple Inc", "i15 Pro Max", "PIXEL": queries that contain a catalog name
\* or differ from it in case
ResolverBrands ==
  (BrandQueries \ {<< >>})
  \cup { <<"A", "p", "p", "l", "e", " ", "I", "n", "c">>,
         <<"G", "O", "O", "G", "L", "E">> }

ResolverModels ==
  (ModelQueries \ {<< >>})
  \cup { <<"i", "1", "5", " ", "P", "r", "o", " ", "M", "a", "x">>,
         <<"P", "I", "X", "E", "L">> }

\* "512GB", "512 gb", "64gb", "1TB"
ResolverCapacities ==
  CapacityQueries
  \cup { <<"5", "1", "2", "G", "B">>, <<"5", "1", "2", " ", "g", "b">>,
         <<"6", "4", "g", "b">>, <<"1", "T", "B">> }

\* the catalog model each resolver settles on for a query (<< >>: none)
resolveAll(data, brand, model) ==
  LET l == lookupModelCode(data, brand, model)
      v == getTradeInValue(data, brand, model, << >>, "omitted")
      m == matchImeiToTradeIn(data, brand, model, << >>)
  IN [lookup |-> IF l.modelCode = "" THEN << >> ELSE l.catalogModel,
      value |-> IF v.kind = "ok" THEN v.model ELSE << >>,
      match |-> IF m.kind = "ok" THEN m.model ELSE << >>]

\* the model and the price of the variant the two pricing resolvers select:
\* getTradeInValue with the capacity asked for, matchImeiToTradeIn as
\* validate_imei calls it, without a capacity
selectAll(data, brand, model, capacity) ==
  LET v == getTradeInValue(data, brand, model, capacity, "omitted")
      m == matchImeiToTradeIn(data, brand, model, << >>)
  IN [valueModel |-> IF v.kind = "ok" THEN v.model ELSE << >>,
      value |-> v.base_value,
      matchModel |-> IF m.kind = "ok" THEN m.model ELSE << >>,
      match |-> m.tradeInValue]

InitResolver ==
  /\ ServerInit
  /\ calls = << >>
  /\ probe \in
       { [NoProbe EXCEPT !.fn = "resolve", !.arg = <<d, b, m>>] :
           d \in SnapshotIds, b \in ResolverBrands, m \in ResolverModels }
       \cup { [NoProbe EXCEPT !.fn = "select", !.arg = <<d, b, m, c>>] :
                d \in SnapshotIds, b \in ResolverBrands,
                m \in ResolverModels, c \in ResolverCapacities }

apply_resolve ==
  /\ probe.fn = "resolve"
  /\ ~probe.done
  /\ probe' = [probe EXCEPT
                 !.done = TRUE,
                 !.result = resolveAll(probe.arg[1], probe.arg[2],
                                       probe.arg[3])]
  /\ UNCHANGED server

apply_select ==
  /\ probe.fn = "select"
  /\ ~probe.done
  /\ probe' = [probe EXCEPT
                 !.done = TRUE,
                 !.result = selectAll(probe.arg[1], probe.arg[2],
                                      probe.arg[3], probe.arg[4])]
  /\ UNCHANGED server

NextResolver == apply_resolve \/ apply_select

SpecResolver == InitResolver /\ [][NextResolver]_vars

(***************************************************************************)
(* The two gated handlers side by side: get_tradein_value and              *)
(* validate_imei answering the same arguments, with the same catalog       *)
(* snapshot in the cache and the same reply from the gateway.              *)
(***************************************************************************)
\* get_tradein_value from its arguments to its response, both catalog reads
\* served with data
gtvOutcome(imei, q, good_condition, data, reply) ==
  LET validation == validationOf[imei]
      early == gtvEarly(q[1], q[2], imei, validation)
      modelCode == lookupOf[data, q[1], q[2]].modelCode
      hylaResult == hylaResultOf[reply]
      stage == gtvGate(hylaResult)
  IN IF early # "none"
       THEN gtvResponse(early, validation, NoHyla, NoValue)
     ELSE IF modelCode = ""
       THEN gtvResponse("CatalogMiss", validation, NoHyla, NoValue)
     ELSE IF stage # "Verified"
       THEN gtvResponse(stage, validation, hylaResult, NoValue)
     ELSE gtvResponse(stage, validation, hylaResult,
                      valueOf[data, q, << >>, good_condition])

\* validate_imei called with brand and model (no model_code, no
\* response_token, check_tradein left out), both catalog reads served with
\* data
vimOutcome(imei, q, good_condition, data, reply) ==
  LET validation == validationOf[imei]
      lookup == lookupOf[data, q[1], q[2]]
      catalogBrand == IF lookup # NoLookup THEN lookup.catalogBrand ELSE q[1]
      catalogModel == IF lookup # NoLookup THEN lookup.catalogModel ELSE q[2]
      identifiedBrand == IF catalogBrand # << >> THEN catalogBrand ELSE q[1]
      identifiedModel == IF catalogModel # << >> THEN catalogModel ELSE q[2]
      hylaResult == IF lookup.modelCode = "" THEN NoHyla
                    ELSE hylaResultOf[reply]
      report == validateReport(hylaResult)
      gate == validateGate(hylaResult, "omitted", identifiedBrand,
                           identifiedModel)
      tradeIn == IF gate = "Verified"
                   THEN matchOf[data, identifiedBrand, identifiedModel]
                   ELSE NoMatch
  IN IF ~validation.valid
       THEN [NoResponse EXCEPT !.verdict = "InvalidImei",
                               !.validation = validation.message]
     ELSE vimResponse(report, gate, hylaResult, tradeIn, good_condition)

\* calls that name both a brand and a model
BrandModelQueries == {q \in GtvQueries : q[1] # << >> /\ q[2] # << >>}

InitHandlers ==
  /\ ServerInit
  /\ calls = << >>
  /\ probe \in
       { [NoProbe EXCEPT !.fn = "handlers", !.arg = <<imei, q, g, d, reply>>] :
           imei \in ImeiInputs, q \in BrandModelQueries, g \in OptionalBool,
           d \in DataValues, reply \in GatewayReplies }

apply_handlers ==
  /\ probe.fn = "handlers"
  /\ ~probe.done
  /\ probe' = [probe EXCEPT
                 !.done = TRUE,
                 !.result =
                   [gtv |-> gtvOutcome(probe.arg[1], probe.arg[2],
                                       probe.arg[3], probe.arg[4],
                                       probe.arg[5]),
                    vim |-> vimOutcome(probe.arg[1], probe.arg[2],
                                       probe.arg[3], probe.arg[4],
                                       probe.arg[5])]]
  /\ UNCHANGED server

NextHandlers == apply_handlers

SpecHandlers == InitHandlers /\ [][NextHandlers]_vars

(***************************************************************************)
(* The shopping tools.  Every tool call is a chain of awaits on the file   *)
(* system: loadJson reads a whole file into a local object, saveJson       *)
(* writes a whole local object back.  A step of a call runs from one       *)
(* await to the next; the steps of different clients interleave.           *)
(***************************************************************************)
\* a client between two calls, with budget calls left to make; args are
\* the arguments of the call it is in
IdleCall(budget) ==
  [pc |-> "idle",
   args |-> [tool |-> "none", user_id |-> "default", product_id |-> "",
             product_type |-> "", quantity |-> 0, storage |-> "",
             promo_code |-> << >>, is_new_customer |-> "omitted",
             shipping_address |-> {}, zip |-> << >>, min_speed |-> -1],
   carts |-> << >>, orders |-> << >>, cart |-> getCart(<< >>, "default"),
   success |-> FALSE, message |-> "", plans |-> << >>, plan_type |-> "",
   order_id |-> 0, created_at |-> 0, budget |-> budget]

\* the tool calls a client can make; a call without user_id is a call for
\* "default"
ShopCalls ==
  LET For(u) == [IdleCall(0).args EXCEPT !.user_id = u]
      Add(u, id, type, quantity, storage) ==
        [For(u) EXCEPT !.tool = "add_to_cart", !.product_id = id,
                       !.product_type = type, !.quantity = quantity,
                       !.storage = storage]
      Full == {"name", "street", "city", "state", "zip"}
  IN UNION {
       { Add(u, "P1", "", 0, ""), Add(u, "P1", "phone", 0, ""),
         Add(u, "P1", "product", 2, "256GB"), Add(u, "PL1", "plan", 0, ""),
         Add(u, "PL2", "plan", 0, ""), Add(u, "PL3", "plan", 0, ""),
         Add(u, "F1", "internet", 0, ""), Add(u, "PL1", "", 0, ""),
         Add(u, "P1", "product", -1, "") }
       \cup { [For(u) EXCEPT !.tool = "remove_from_cart", !.product_id = id] :
                id \in {"P1", "PL1"} }
       \cup { [For(u) EXCEPT !.tool = "apply_promo", !.promo_code = code] :
                code \in { <<"a", "t", "t", "2", "0">>,
                           <<"F", "L", "A", "T", "5">>, <<"O", "L", "D">> } }
       \cup { [For(u) EXCEPT !.tool = "clear_cart"],
              [For(u) EXCEPT !.tool = "get_cart"] }
       \cup { [For(u) EXCEPT !.tool = "checkout", !.is_new_customer = n,
                             !.shipping_address = a] :
                n \in {"true", "false", "omitted"},
                a \in {Full, Full \ {"zip"}} }
       \cup { [For(u) EXCEPT !.tool = "check_address", !.zip = z] :
                z \in { <<"9", "0", "2">>, <<"3", "0", "3">>, <<"1">>,
                        <<"2", "2", "5">> } }
       \cup { [For(u) EXCEPT !.tool = "get_internet_plans",
                             !.min_speed = m] : m \in {-1, 100} }
       : u \in {"default", "u2"} }

\* one client making MaxCalls calls, one after the other
InitShop ==
  /\ ServerInit
  /\ probe = NoProbe
  /\ calls = (1 :> IdleCall(MaxCalls))

\* two clients making MaxRaceCalls calls each, at the same time
InitRace ==
  /\ ServerInit
  /\ probe = NoProbe
  /\ calls = (1 :> IdleCall(MaxRaceCalls)) @@ (2 :> IdleCall(MaxRaceCalls))

\* addToCart, removeFromCart, applyPromo and clearCart (the clearCart of
\* checkout included), in two steps: loadJson(CARTS_PATH), which applyPromo
\* reaches only with a valid code, and then the change of the loaded carts
\* up to saveJson(CARTS_PATH, carts) or to the return of a call that fails
cart_write(c) ==
  \/ /\ \/ /\ calls[c].pc = "idle"
           /\ calls[c].budget > 0
           /\ \E args \in ShopCalls :
                /\ args.tool \in {"add_to_cart", "remove_from_cart",
                                  "apply_promo", "clear_cart"}
                /\ calls' =
                     [calls EXCEPT ![c] =
                        IF args.tool = "apply_promo"
                             /\ ~applyPromo(<< >>, args).success
                          THEN [@ EXCEPT !.pc = "done", !.args = args,
                                         !.message = "Invalid promo code"]
                        ELSE [@ EXCEPT !.pc = "loaded", !.args = args,
                                       !.carts = shop.carts]]
        \/ /\ calls[c].pc = "clear"
           /\ calls' = [calls EXCEPT ![c].pc = "clearing",
                                     ![c].carts = shop.carts]
     /\ UNCHANGED shop
  \/ /\ calls[c].pc \in {"loaded", "clearing"}
     /\ LET args == calls[c].args
            r == CASE args.tool = "add_to_cart" ->
                        addToCart(calls[c].carts, args)
                   [] args.tool = "remove_from_cart" ->
                        removeFromCart(calls[c].carts, args)
                   [] args.tool = "apply_promo" ->
                        applyPromo(calls[c].carts, args)
                   [] OTHER -> clearCart(calls[c].carts, args)
        IN /\ shop' = IF r.saved THEN [shop EXCEPT !.carts = r.carts]
                      ELSE shop
           /\ calls' =
                [calls EXCEPT ![c] =
                   IF args.tool = "checkout"
                     THEN [@ EXCEPT !.pc = "done", !.carts = r.carts,
                                    !.success = TRUE,
                                    !.message = "Order placed!"]
                   ELSE [@ EXCEPT
                           !.pc = IF r.success /\ args.tool # "clear_cart"
                                    THEN "summary" ELSE "done",
                           !.carts = r.carts, !.success = r.success,
                           !.message = r.message]]

\* getCart, at the head of get_cart and checkout and at the end of
\* addToCart, removeFromCart and applyPromo, in one or two steps:
\* loadJson(CARTS_PATH) and, when the user has no cart, the saveJson of the
\* loaded carts with an empty cart added.  after is what follows in the
\* caller: the validation of checkout, or the return of the summary.
get_cart(c) ==
  LET after(args, cart) ==
        IF args.tool = "checkout"
          THEN LET verdict == checkoutValidation(cart, args)
               IN IF verdict = "ok"
                    THEN [calls[c] EXCEPT !.pc = "order", !.args = args,
                                          !.cart = cart]
                  ELSE [calls[c] EXCEPT !.pc = "done", !.args = args,
                                        !.cart = cart, !.success = FALSE,
                                        !.message = verdict]
        ELSE [calls[c] EXCEPT
                !.pc = "done", !.args = args, !.cart = cart,
                !.success = (args.tool = "get_cart") \/ calls[c].success]
  IN \/ /\ \E args \in ShopCalls :
             /\ \/ /\ calls[c].pc = "idle"
                   /\ calls[c].budget > 0
                   /\ args.tool \in {"get_cart", "checkout"}
                \/ /\ calls[c].pc = "summary"
                   /\ args = calls[c].args
             /\ LET cart == getCart(shop.carts, args.user_id)
                IN calls' =
                     [calls EXCEPT ![c] =
                        IF cart.created
                          THEN [@ EXCEPT !.pc = "create", !.args = args,
                                         !.carts = shop.carts]
                        ELSE after(args, cart)]
        /\ UNCHANGED shop
     \/ /\ calls[c].pc = "create"
        /\ LET cart == getCart(calls[c].carts, calls[c].args.user_id)
           IN /\ shop' = [shop EXCEPT !.carts = cart.carts]
              /\ calls' = [calls EXCEPT ![c] = after(calls[c].args, cart)]

\* the end of checkout before its clearCart, in two steps: the order id and
\* the date of the order with loadJson(ORDERS_PATH), then
\* orders[orderId] = order with saveJson(ORDERS_PATH, orders).  The
\* Math.random suffixes of two order ids are taken to differ.
order_write(c) ==
  \/ /\ calls[c].pc = "order"
     /\ calls' = [calls EXCEPT ![c].pc = "ordering",
                               ![c].orders = shop.orders,
                               ![c].order_id = shop.random + 1,
                               ![c].created_at = shop.clock]
     /\ shop' = [shop EXCEPT !.random = @ + 1]
  \/ /\ calls[c].pc = "ordering"
     /\ LET args == calls[c].args
            cart == calls[c].cart
            order == [order_id |-> calls[c].order_id,
                      user_id |-> args.user_id, items |-> cart.items,
                      subtotal |-> cart.subtotal, discount |-> cart.discount,
                      tax |-> cart.tax, shipping |-> cart.shipping,
                      total |-> cart.total,
                      shipping_address |-> args.shipping_address,
                      status |-> "confirmed",
                      created_at |-> calls[c].created_at]
        IN shop' = [shop EXCEPT
                      !.orders = (calls[c].order_id :> order)
                                   @@ calls[c].orders]
     /\ calls' = [calls EXCEPT ![c].pc = "clear"]

\* the check_address tool
check_address(c) ==
  /\ calls[c].pc = "idle"
  /\ calls[c].budget > 0
  /\ \E args \in ShopCalls :
       /\ args.tool = "check_address"
       /\ LET r == checkAddressQualification(shop.qualificationCache, args)
          IN /\ shop' = [shop EXCEPT !.qualificationCache = r.cache]
             /\ calls' = [calls EXCEPT
                            ![c].pc = "done", ![c].args = args,
                            ![c].success = TRUE,
                            ![c].plans = r.available_plans,
                            ![c].plan_type = IF r.fiber_available
                                               THEN "Fiber"
                                             ELSE "Internet Air"]

\* the get_internet_plans tool without its qualification test
get_internet_plans_NoTest(c) ==
  /\ calls[c].pc = "idle"
  /\ calls[c].budget > 0
  /\ \E args \in ShopCalls :
       /\ args.tool = "get_internet_plans"
       /\ LET cache == shop.qualificationCache
          IN calls' =
               [calls EXCEPT
                  ![c].pc = "done", ![c].args = args, ![c].success = TRUE,
                  ![c].plans = getInternetPlans(cache, args),
                  ![c].plan_type =
                    IF args.user_id \in DOMAIN cache
                         /\ cache[args.user_id].fiber_available
                      THEN "Fiber" ELSE "Internet Air"]
  /\ UNCHANGED shop

\* the get_internet_plans tool
get_internet_plans(c) ==
  /\ calls[c].pc = "idle"
  /\ calls[c].budget > 0
  /\ \E args \in ShopCalls :
       /\ args.tool = "get_internet_plans"
       /\ LET cache == shop.qualificationCache
          IN calls' =
               [calls EXCEPT ![c] =
                  IF args.user_id \notin DOMAIN cache
                    THEN [@ EXCEPT !.pc = "done", !.args = args,
                                   !.success = FALSE]
                  ELSE [@ EXCEPT
                          !.pc = "done", !.args = args, !.success = TRUE,
                          !.plans = getInternetPlans(cache, args),
                          !.plan_type =
                            IF cache[args.user_id].fiber_available
                              THEN "Fiber" ELSE "Internet Air"]]
  /\ UNCHANGED shop

\* the tool call returns; the clock has moved on by the next call
tool_return(c) ==
  /\ calls[c].pc = "done"
  /\ calls' = [calls EXCEPT ![c] = IdleCall(@.budget - 1)]
  /\ shop' = [shop EXCEPT !.clock = @ + 1]

NextShop ==
  /\ \E c \in DOMAIN calls :
       \/ cart_write(c)
       \/ get_cart(c)
       \/ order_write(c)
       \/ check_address(c)
       \/ get_internet_plans(c)
       \/ tool_return(c)
  /\ UNCHANGED <<tradeInCache, tradeInCacheTime, now, request, response, io,
                 probe>>

SpecShop == InitShop /\ [][NextShop]_vars

SpecRace == InitRace /\ [][NextShop]_vars

(***************************************************************************)
(* Concurrent refreshes of the trade-in cache.  Two callers run            *)
(* fetchTradeInData at the same time; a call that finds the cache stale    *)
(* is suspended at its await of fetch() and settles later, while the       *)
(* clock moves and the other caller runs.                                  *)
(***************************************************************************)
\* now is the Date.now() a suspended call took when it started, data the
\* value the caller's last call returned
InitRefresh ==
  /\ ServerInit
  /\ probe = NoProbe
  /\ calls = [c \in {1, 2} |->
                [pc |-> "idle", now |-> 0, data |-> NoSnapshot,
                 budget |-> MaxRaceCalls]]

\* fetchTradeInData up to its await: a fresh cache is returned at once
fetch_start(c) ==
  /\ calls[c].pc = "idle"
  /\ calls[c].budget > 0
  /\ calls' = [calls EXCEPT ![c] =
                 IF cacheIsValid(tradeInCache, tradeInCacheTime, now)
                   THEN [@ EXCEPT !.data = tradeInCache,
                                  !.budget = @ - 1]
                 ELSE [@ EXCEPT !.pc = "fetching", !.now = now]]
  /\ UNCHANGED <<tradeInCache, tradeInCacheTime>>

\* fetchTradeInData whose stamp is the time at which the fetch settles
fetch_settle_StampAtSettle(c) ==
  /\ calls[c].pc = "fetching"
  /\ \E net \in NetOutcomes :
       IF net.ok
         THEN /\ tradeInCache' = net.snap
              /\ tradeInCacheTime' = now
              /\ calls' = [calls EXCEPT ![c].pc = "idle",
                                        ![c].data = net.snap,
                                        ![c].budget = @ - 1]
       ELSE /\ calls' = [calls EXCEPT ![c].pc = "idle",
                                      ![c].data = tradeInCache,
                                      ![c].budget = @ - 1]
            /\ UNCHANGED <<tradeInCache, tradeInCacheTime>>

\* fetchTradeInData from the settling of fetch() to its return
fetch_settle(c) ==
  /\ calls[c].pc = "fetching"
  /\ \E net \in NetOutcomes :
       IF net.ok
         THEN /\ tradeInCache' = net.snap
              /\ tradeInCacheTime' = calls[c].now
              /\ calls' = [calls EXCEPT ![c].pc = "idle",
                                        ![c].data = net.snap,
                                        ![c].budget = @ - 1]
       ELSE /\ calls' = [calls EXCEPT ![c].pc = "idle",
                                      ![c].data = tradeInCache,
                                      ![c].budget = @ - 1]
            /\ UNCHANGED <<tradeInCache, tradeInCacheTime>>

NextRefresh ==
  \/ Tick
  \/ /\ \E c \in DOMAIN calls :
          \/ fetch_start(c)
          \/ fetch_settle(c)
     /\ UNCHANGED <<now, request, response, io, probe, shop>>

SpecRefresh == InitRefresh /\ [][NextRefresh]_vars


(***************************************************************************)
(* Properties.                                                             *)
(***************************************************************************)
GateCall == request.tool \in {"get_tradein_value", "validate_imei"}

GatewayCalled == Len(io.hylaCalls) > 0

\* the gateway reply carries an outcome code in its body
CodePresent == GatewayCalled /\ io.reply.kind = "http" /\ io.reply.json
               /\ io.reply.code # AbsentRaw

ReplyCodeIs(k) == CodePresent /\ io.reply.code = NumRaw(k)

\* validate_imei was asked for the trade-in value of a named device
TradeInRequested ==
  /\ request.tool = "validate_imei"
  /\ request.check_tradein # "false"
  /\ (request.brand # << >> \/ request.model # << >>)

\* C1: get_tradein_value returns a trade-in amount only if the gateway call
\* of the request succeeded (HTTP success and no negative outcome code).
C1_GtvAmountOnlyIfVerified ==
  (request.tool = "get_tradein_value" /\ response.hasAmount)
    => (GatewayCalled /\ io.hylaResult.success)

\* C2: validate_imei returns a trade-in amount only if the gateway was
\* called in this request and callHylaGateway returned success.
C2_VimAmountOnlyIfVerified ==
  (request.tool = "validate_imei" /\ response.hasAmount)
    => /\ Len(io.hylaCalls) = 1
       /\ io.hylaResult.called
       /\ io.hylaResult.success
       /\ io.reply.kind = "http"
       /\ isOk(io.reply.status)

C2_Witness ==
  /\ request.tool = "validate_imei"
  /\ response.hasAmount
  /\ io.hylaResult.success

\* C3: whatever tool is called, a response carries trade-in amounts only if
\* the gateway verified an IMEI in that call.
C3_AmountsOnlyAfterVerification ==
  response.hasAmount => (GatewayCalled /\ io.hylaResult.success)

ExpectedIneligibleMessage ==
  IF io.reply.message # "" THEN io.reply.message
  ELSE IF io.reply.code.n \in KnownCodes
    THEN HYLA_ERROR_CODES(io.reply.code.n)
  ELSE ""

C6_UnknownCodeFailsClosed ==
  (GateCall /\ CodePresent
     /\ ~(io.reply.code.t = "num" /\ io.reply.code.n \in KnownCodes))
    => (~io.hylaResult.success /\ ~response.hasAmount)

\* the gateway outcome is Unverifiable: transport exception, body that is
\* not JSON, or a non-success status without an outcome code
UnverifiableReply ==
  /\ GatewayCalled
  /\ \/ io.reply.kind = "throw"
     \/ io.reply.kind = "http" /\ ~io.reply.json
     \/ io.reply.kind = "http" /\ ~isOk(io.reply.status)
          /\ io.reply.code = AbsentRaw

\* C7: for an Unverifiable gateway outcome, get_tradein_value and
\* validate_imei (asked for the value of a named device) answer with the
\* explicit unverifiable block that points to the out-of-band path, and
\* with no amount.
C7_UnverifiableBlocks ==
  (UnverifiableReply
     /\ (request.tool = "get_tradein_value" \/ TradeInRequested))
    => /\ response.verdict = "BlockedUnverifiable"
       /\ response.outOfBand
       /\ ~response.hasAmount

\* C8: a Verified request for a device that resolves in the catalog (the
\* handler found its model code, and the catalog the value is read from
\* still has the entry) discloses a value, and the value is the price of the
\* variant times 1, or times 0.5 rounded half up when good_condition is
\* false.
C8_VerifiedDiscloses ==
  (/\ request.tool = "get_tradein_value" \/ TradeInRequested
   /\ GatewayCalled
   /\ io.hylaResult.success
   /\ request.model_code = ""
   /\ request.brand # << >>
   /\ request.model # << >>
   /\ lookupOf[io.priceSnap, request.brand, request.model].modelCode # "")
    => /\ response.verdict = "Disclosed"
       /\ response.amount = IF request.good_condition = "false"
                              THEN (response.base_value + 1) \div 2
                              ELSE response.base_value

\* C9: an identifier that fails local validation ends both handlers in a
\* rejection with no catalog read and no gateway call, and every gateway
\* call carries an identifier that passes the validator.
C9_InvalidImeiRejected ==
  /\ (GateCall /\ ~validationOf[request.imei].valid)
       => /\ response.verdict \in {"InvalidImei", "ImeiRequired",
                                   "MissingArgs"}
          /\ ~response.hasAmount
          /\ io.reads = 0
          /\ io.fetches = 0
          /\ io.hylaCalls = << >>
  /\ \A i \in 1..Len(io.hylaCalls) :
       /\ io.hylaCalls[i].imei \in ImeiInputs
       /\ validationOf[io.hylaCalls[i].imei].valid

C9_Witness ==
  /\ request.tool = "get_tradein_value"
  /\ request.brand # << >>
  /\ request.model # << >>
  /\ validationOf[request.imei].message = "checksum"
  /\ response.verdict = "InvalidImei"

\* no make whose name contains the brand has a model with a variant whose
\* name contains the model (names compared in lower case)
NoCatalogEntry(data, brand, model) ==
  \/ data = NoSnapshot
  \/ ~Snapshots[data].hasPhone
  \/ \A i \in 1..Len(Snapshots[data].makes) :
       \A j \in 1..Len(Snapshots[data].makes[i].models) :
         ~ /\ includes(toLowerCase(Snapshots[data].makes[i].name),
                       toLowerCase(brand))
           /\ includes(toLowerCase(Snapshots[data].makes[i].models[j].name),
                       toLowerCase(model))
           /\ Len(Snapshots[data].makes[i].models[j].productFamily) > 0

noCatalogEntryOf ==
  Tabulate([data \in DataValues, brand \in BrandQueries,
            model \in ModelQueries |-> NoCatalogEntry(data, brand, model)])

\* the handler got past validation, was given no model code, and the
\* catalog it read has no entry for the claimed brand and model
Unresolved ==
  /\ GateCall
  /\ request.model_code = ""
  /\ validationOf[request.imei].valid
  /\ request.tool = "get_tradein_value"
       => (request.brand # << >> /\ request.model # << >>)
  /\ noCatalogEntryOf[io.lookupSnap, request.brand, request.model]

\* C10: when the claimed brand and model resolve to no catalog entry, the
\* request ends without a gateway call and without an amount.
C10_CatalogMissEndsRequest ==
  Unresolved => /\ io.hylaCalls = << >>
                /\ ~io.hylaResult.called
                /\ ~response.hasAmount

C10_Witness ==
  /\ Unresolved
  /\ request.tool = "validate_imei"
  /\ io.lookupSnap # NoSnapshot
  /\ Snapshots[io.lookupSnap].hasPhone
  /\ response.verdict = "BlockedUnverifiable"

\* C11: get_tradein_value and validate_imei answer every call with a
\* response, whatever the catalog fetch, the catalog document and the gateway
\* do: no exception leaves the handler, and callHylaGateway always returns a
\* result (for a transport exception: no success, status 0, no code).
C11_NoExceptionEscapes ==
  GateCall
    => /\ response.verdict \notin {"none", "Escaped"}
       /\ GatewayCalled
            => /\ io.hylaResult.called
               /\ io.reply.kind = "throw"
                    => /\ ~io.hylaResult.success
                       /\ io.hylaResult.status = 0
                       /\ io.hylaResult.hylaCode = NullCode

\* a resolver threw on a model without variants and the handler caught it
C11_Witness ==
  /\ GateCall
  /\ GatewayCalled
  /\ io.hylaResult.success
  /\ response.verdict = "HandlerError"

RECURSIVE referenceLuhnSum(_, _)
\* the Luhn sum taken from the right: k is the distance from the check
\* digit; every second digit, starting next to the check digit, is doubled
\* and its decimal digits are added
referenceLuhnSum(s, k) ==
  IF k >= Len(s) THEN 0
  ELSE LET d == parseInt(s[Len(s) - k])
       IN (IF k % 2 = 1 THEN ((2 * d) \div 10) + ((2 * d) % 10) ELSE d)
            + referenceLuhnSum(s, k + 1)

ReferenceLuhn(s) == referenceLuhnSum(s, 0) % 10 = 0

LuhnReturned == probe.fn = "luhnCheck" /\ probe.done

\* C12: on a string of 15 digits luhnCheck agrees with the reference Luhn
\* check; it accepts "490154203237518" and rejects "490154203237519".
C12_LuhnMatchesReference ==
  LuhnReturned
    => /\ probe.result = ReferenceLuhn(probe.arg)
       /\ probe.arg = Fixture => probe.result
       /\ probe.arg = [Fixture EXCEPT ![15] = "9"] => ~probe.result

C12_Witness ==
  /\ LuhnReturned
  /\ probe.arg = Fixture
  /\ probe.result

ValidatorReturned == probe.fn = "validateImeiFormat" /\ probe.done

\* the input without its whitespace, hyphen, parenthesis and period
\* characters
Cleaned(s) ==
  SelectSeq(s, LAMBDA c : c \notin {" ", "\t", "-", "(", ")", "."})

IsFifteenDigits(s) ==
  /\ Len(s) = 15
  /\ \A i \in 1..Len(s) :
       s[i] \in {"0", "1", "2", "3", "4", "5", "6", "7", "8", "9"}

\* C13: an input that, once cleaned, is not 15 digits is rejected with a
\* length or digit message, never the checksum message; the checksum
\* message is given only to 15 digits; valid holds exactly for 15 digits
\* that pass the checksum.
C13_ValidatorPrecedence ==
  ValidatorReturned
    => LET clean == Cleaned(probe.arg)
       IN /\ probe.result.cleanImei = clean
          /\ ~IsFifteenDigits(clean)
               => /\ ~probe.result.valid
                  /\ probe.result.message \in {"length", "nondigit"}
          /\ probe.result.message = "checksum"
               => (IsFifteenDigits(clean) /\ ~ReferenceLuhn(clean))
          /\ probe.result.valid
               <=> (IsFifteenDigits(clean) /\ ReferenceLuhn(clean))
          /\ probe.result.valid <=> probe.result.message = "ok"

\* 15 characters with a letter among them: a format error
C13_Witness ==
  /\ ValidatorReturned
  /\ Len(Cleaned(probe.arg)) = 15
  /\ ~IsFifteenDigits(Cleaned(probe.arg))
  /\ probe.result.message = "nondigit"

\* a tool call that read the catalog once; the read is made at the time the
\* call ends at
SingleRead == request.tool = "none" /\ request'.tool # "none" /\ io'.reads = 1

\* the snapshot the call got from fetchTradeInData, where the call records it
ReadSnapshots == {io.lookupSnap, io.priceSnap} \ {NoSnapshot}

FailedRefresh ==
  /\ SingleRead
  /\ tradeInCache # NoSnapshot
  /\ io'.failures = 1

\* C15: when a refresh fails and a prior snapshot exists, fetchTradeInData
\* returns the prior snapshot, the cached snapshot and its timestamp stay as
\* they were, the caller is served, and the cache is still expired for the
\* next call.
C15_StaleServedOnFailure ==
  [][FailedRefresh
       => /\ tradeInCache' = tradeInCache
          /\ tradeInCacheTime' = tradeInCacheTime
          /\ ReadSnapshots' \subseteq {tradeInCache}
          /\ request'.tool \in {"search_tradein", "get_tradein_value"}
               => ReadSnapshots' = {tradeInCache}
          /\ response'.verdict \notin {"none", "HandlerError", "Escaped"}
          /\ now' - tradeInCacheTime' >= TRADEIN_CACHE_TTL]_vars

\* search_tradein answered from the stale snapshot after a failed refresh
C15_Witness ==
  /\ request.tool = "search_tradein"
  /\ io.reads = 1
  /\ io.failures = 1
  /\ tradeInCache # NoSnapshot
  /\ io.priceSnap = tradeInCache
  /\ response.verdict = "SearchResults"

\* the handler's catalog read failed with nothing cached: fetchTradeInData
\* returned null
DataUnavailable ==
  /\ request.tool = "get_tradein_value" \/ TradeInRequested
  /\ validationOf[request.imei].valid
  /\ request.model_code = ""
  /\ io.reads >= 1
  /\ io.failures >= 1
  /\ io.lookupSnap = NoSnapshot
  /\ tradeInCache = NoSnapshot

\* the verdicts the handlers give when the catalog was read and has no entry
\* for the brand and model
MissVerdicts == {"CatalogMiss", "BlockedUnverifiable"}

\* C16: when the catalog fetch fails and nothing is cached, the handler
\* reports that the data is unavailable, in a response that differs from the
\* one for a brand and model that are not in the catalog; it calls no
\* gateway and discloses no amount.
C16_UnavailableReported ==
  DataUnavailable
    => /\ response.verdict \notin MissVerdicts
       /\ io.hylaCalls = << >>
       /\ ~response.hasAmount

\* one name matches the other as a substring, in either direction, case
\* ignored
FuzzyMatch(name, query) ==
  \/ includes(toLowerCase(name), toLowerCase(query))
  \/ includes(toLowerCase(query), toLowerCase(name))

\* the resolution rule: the first make, in catalog order, whose name matches
\* the brand, then the first model of that make whose name matches the model
ReferenceResolve(data, brand, model) ==
  IF ~Snapshots[data].hasPhone THEN << >>
  ELSE LET makes == Snapshots[data].makes
           mk == findIndex({i \in DOMAIN makes :
                              FuzzyMatch(makes[i].name, brand)})
       IN IF mk = 0 THEN << >>
          ELSE LET models == makes[mk].models
                   md == findIndex({j \in DOMAIN models :
                                      FuzzyMatch(models[j].name, model)})
               IN IF md = 0 THEN << >> ELSE models[md].name

ResolveReturned == probe.fn = "resolve" /\ probe.done

\* C17: for every snapshot, brand and model, the model-code lookup of the
\* handlers, getTradeInValue and matchImeiToTradeIn all settle on the catalog
\* model the resolution rule gives (or all on none).
C17_ResolversAgree ==
  ResolveReturned
    => LET ref == ReferenceResolve(probe.arg[1], probe.arg[2], probe.arg[3])
       IN /\ probe.result.lookup = ref
          /\ probe.result.value = ref
          /\ probe.result.match = ref

\* the variants of the catalog model with the given name
VariantsOf(data, modelName) ==
  LET makes == Snapshots[data].makes
      at == CHOOSE p \in { q \in (DOMAIN makes) \X (1..4) :
                             q[2] <= Len(makes[q[1]].models) } :
              makes[p[1]].models[p[2]].name = modelName
  IN makes[at[1]].models[at[2]].productFamily

\* the price the selection rule gives: of the variant whose capacity equals
\* the one asked for, case ignored, else of the first variant
ExpectedPrice(data, modelName, capacity) ==
  LET family == VariantsOf(data, modelName)
      same == {k \in DOMAIN family :
                 toLowerCase(family[k].capacity) = toLowerCase(capacity)}
  IN IF capacity # << >> /\ same # {}
       THEN family[CHOOSE k \in same : \A j \in same : k <= j].modelPrice
       ELSE family[1].modelPrice

SelectReturned == probe.fn = "select" /\ probe.done

\* C18: the price getTradeInValue discloses is that of the variant of the
\* resolved model whose capacity equals the capacity asked for, case
\* ignored, and of the first variant when the capacity is omitted or equals
\* none; validate_imei, which passes no capacity to matchImeiToTradeIn,
\* gets the price of the first variant.
C18_CapacitySelection ==
  SelectReturned
    => /\ probe.result.valueModel # << >>
            => probe.result.value
                 = ExpectedPrice(probe.arg[1], probe.result.valueModel,
                                 probe.arg[4])
       /\ probe.result.matchModel # << >>
            => probe.result.match
                 = ExpectedPrice(probe.arg[1], probe.result.matchModel, << >>)

\* "512gb" selects the second variant of "Pixel"
C18_Witness ==
  /\ SelectReturned
  /\ Snapshots[probe.arg[1]] = BaseCatalog
  /\ probe.arg[4] = <<"5", "1", "2", "g", "b">>
  /\ probe.result.valueModel = <<"P", "i", "x", "e", "l">>
  /\ probe.result.value = 450
  /\ probe.result.match = 300

\* get_tradein_value rejected the request because the brand or the model
\* matched nothing in a catalog that it read
GtvNotFound ==
  /\ request.tool = "get_tradein_value"
  /\ response.verdict \in {"CatalogMiss", "VerifiedNoValue"}
  /\ io.lookupSnap # NoSnapshot
  /\ Snapshots[io.lookupSnap].hasPhone
  /\ io.priceSnap # NoSnapshot => Snapshots[io.priceSnap].hasPhone

\* the lists a NotFound result can carry: every brand of the catalog, or
\* every model of one of its makes
ValidAlternatives(data) ==
  LET makes == Snapshots[data].makes
  IN { [i \in DOMAIN makes |-> makes[i].name] }
     \cup { [j \in DOMAIN makes[mk].models |-> makes[mk].models[j].name] :
              mk \in DOMAIN makes }

\* C19: a brand or model that matches nothing ends in a rejection, not an
\* exception, and the rejection presents the valid brands (brand miss) or the
\* valid models of the matched brand (model miss).
C19_NotFoundCarriesAlternatives ==
  GtvNotFound
    => response.alternatives
         \in ValidAlternatives(IF io.priceSnap # NoSnapshot
                                  THEN io.priceSnap ELSE io.lookupSnap)

(***************************************************************************)
(* C20: get_tradein_value and validate_imei (called with brand and model)  *)
(* do the same thing: for the same identifier, brand, model, condition,    *)
(* catalog snapshot and gateway reply, either both disclose a trade-in     *)
(* amount and the amounts are equal, or both block, with the same blocked  *)
(* reason.                                                                 *)
(***************************************************************************)
HandlersReturned == probe.fn = "handlers" /\ probe.done

\* the blocked outcomes of the gate
BlockedVerdicts == {"BlockedMismatch", "BlockedIneligible", "BlockedUnverifiable"}

\* C20: the two handlers disclose together, the same amount, and when both
\* block they give the same reason
C20_HandlersAgree ==
  HandlersReturned
    => LET g == probe.result.gtv
           v == probe.result.vim
       IN /\ g.hasAmount = v.hasAmount
          /\ g.hasAmount => g.amount = v.amount
          /\ (g.verdict \in BlockedVerdicts /\ v.verdict \in BlockedVerdicts)
                => g.verdict = v.verdict

(***************************************************************************)
(* C27: when the cleaned identifier's length is not 15, the rejection      *)
(* message reports the observed digit count, the number of digits the      *)
(* caller supplied, for every input including those that contain           *)
(* non-digit characters.                                                   *)
(***************************************************************************)
\* the number of digits in s
DigitCount(s) ==
  Len(SelectSeq(s, LAMBDA c :
        c \in {"0", "1", "2", "3", "4", "5", "6", "7", "8", "9"}))

\* C27: a cleaned input whose length is not 15 is rejected with the length
\* message, and the count in the message is the number of digits supplied
C27_DigitCountReported ==
  (ValidatorReturned /\ Len(Cleaned(probe.arg)) # 15)
    => /\ probe.result.message = "length"
       /\ probe.result.count = DigitCount(probe.arg)

(***************************************************************************)
(* C24: the model code sent to the gateway for verification is the model   *)
(* code of the resolved variant whose price is disclosed.                  *)
(***************************************************************************)
\* C24: whenever get_tradein_value or validate_imei discloses an amount, the
\* gateway was called in that request and the variant that is priced is the
\* one the model code of that call identifies
C24_VerifiedCodeIsPricedCode ==
  (GateCall /\ response.hasAmount)
    => /\ GatewayCalled
       /\ io.hylaCalls[1].modelCode = response.pricedCode

(***************************************************************************)
(* C25: each get_tradein_value or validate_imei request makes at most one  *)
(* gateway call and never retries it: after a gateway failure of any kind  *)
(* the request terminates with that failure reported, and a catalog fetch  *)
(* failure with a prior snapshot is invisible to the gate (the request     *)
(* proceeds on the stale snapshot).                                        *)
(***************************************************************************)
\* a gated tool call is answered in this step
GateAnswered ==
  request.tool = "none" /\ request'.tool \in {"get_tradein_value", "validate_imei"}

\* C25: a gated call makes at most one gateway call; when that call fails the
\* response reports the failure and discloses nothing; when every fetch of
\* the request failed and a snapshot was cached, every catalog read of the
\* request returned that snapshot
C25_SingleAttempt ==
  [][GateAnswered
       => /\ Len(io'.hylaCalls) <= 1
          /\ (Len(io'.hylaCalls) = 1 /\ ~io'.hylaResult.success)
               => /\ ~response'.hasAmount
                  /\ response'.report \notin {"none", "Verified"}
          /\ (io'.failures > 0 /\ io'.failures = io'.fetches
                /\ tradeInCache # NoSnapshot)
               => ReadSnapshots' = {tradeInCache}]_vars

(***************************************************************************)
(* C29: within one get_tradein_value request, the model code that is       *)
(* verified and the price that is disclosed are read from the same catalog *)
(* snapshot, even when the cache expires or is refreshed while the gateway *)
(* call is in flight.                                                      *)
(***************************************************************************)
\* C29: a get_tradein_value request that discloses an amount read the price
\* from the snapshot it had looked the model code up in
C29_OneSnapshotPerRequest ==
  (request.tool = "get_tradein_value" /\ response.hasAmount)
    => io.priceSnap = io.lookupSnap


(***************************************************************************)
(* The shopping tools, one client.                                         *)
(***************************************************************************)
\* C21: a checkout of a new customer (is_new_customer true or left out)
\* whose cart is not empty ends with PHONE_REQUIRED when the cart holds a
\* Postpaid plan and no product, and with PLAN_REQUIRED when it holds a
\* product and neither a Postpaid nor a BYOD plan; a checkout of an existing
\* customer ends with neither; no step of a checkout that is rejected
\* changes the orders or the contents of a cart.
C21_NewCustomerRules ==
  [][\A c \in DOMAIN calls :
       LET frame == calls'[c]
           cart == frame.cart
           new == frame.args.is_new_customer # "false"
           products == ShopCatalog.products
           plans == ShopCatalog.plans
           ids == {cart.items[i].id : i \in DOMAIN cart.items}
           product == \E k \in DOMAIN products : products[k].product_id \in ids
           plan(category) ==
             \E k \in DOMAIN plans : /\ plans[k].category = category
                                     /\ plans[k].plan_id \in ids
           postpaid == plan("Postpaid")
           byod == plan("BYOD")
           CartOf(carts, u) == IF u \in DOMAIN carts THEN carts[u]
                               ELSE EmptyCart
           ends == calls[c].pc # "done" /\ frame.pc = "done"
           rejected == ends /\ ~frame.success
       IN frame.args.tool = "checkout" =>
            /\ (ends /\ new /\ cart.item_count # 0 /\ postpaid /\ ~product)
                 => frame.message = "PHONE_REQUIRED"
            /\ (ends /\ new /\ cart.item_count # 0 /\ product /\ ~postpaid
                  /\ ~byod)
                 => frame.message = "PLAN_REQUIRED"
            /\ (ends /\ ~new)
                 => frame.message \notin {"PHONE_REQUIRED", "PLAN_REQUIRED"}
            /\ (rejected \/ frame.pc = "create")
                 => /\ shop'.orders = shop.orders
                    /\ \A u \in DOMAIN shop'.carts :
                         CartOf(shop'.carts, u) = CartOf(shop.carts, u)
    ]_vars


C30_AddedItemKept ==
  \A c \in DOMAIN calls, d \in DOMAIN calls :
    LET userId == calls[c].args.user_id
        id == calls[c].args.product_id
        ids(items) == {items[i].id : i \in DOMAIN items}
    IN (/\ c # d
        /\ calls[c].args.tool = "add_to_cart"
        /\ calls[c].pc = "done"
        /\ calls[c].success
        /\ calls[d].budget = MaxRaceCalls
        /\ calls[d].args.tool \in {"none", "add_to_cart", "apply_promo",
                                   "get_cart", "checkout"})
         => \/ /\ userId \in DOMAIN shop.carts
               /\ id \in ids(shop.carts[userId].items)
            \/ \E o \in DOMAIN shop.orders :
                 /\ shop.orders[o].user_id = userId
                 /\ id \in ids(shop.orders[o].items)


(***************************************************************************)
(* Concurrent refreshes of the trade-in cache.                             *)
(***************************************************************************)
\* C26: the cached snapshot and its timestamp change only together, in the
\* one step in which a fetch settles with a document: the snapshot becomes
\* that document and the timestamp the time that call recorded when it
\* started; and the value a call returns is the snapshot cached before the
\* step or the one cached after it.
C26_SnapshotAndStampTogether ==
  [][/\ <<tradeInCache, tradeInCacheTime>>' # <<tradeInCache, tradeInCacheTime>>
          => \E c \in DOMAIN calls :
               /\ calls[c].pc = "fetching"
               /\ calls'[c].pc = "idle"
               /\ tradeInCache' = calls'[c].data
               /\ tradeInCache' \in SnapshotIds
               /\ tradeInCacheTime' = calls[c].now
     /\ \A c \in DOMAIN calls :
          calls'[c].budget # calls[c].budget
            => calls'[c].data \in {tradeInCache, tradeInCache'}
    ]_vars

\* a snapshot cached by one caller has been replaced by a snapshot fetched
\* by the other caller, whose call had started before the clock moved
C26_Witness ==
  /\ tradeInCache # NoSnapshot
  /\ tradeInCacheTime < now
  /\ \A c \in DOMAIN calls : calls[c].budget = 0 /\ calls[c].data # NoSnapshot
  /\ calls[1].data # calls[2].data

\* C28: no step lowers tradeInCacheTime.
C28_StampNeverDecreases ==
  [][tradeInCacheTime' >= tradeInCacheTime]_vars

====
